---------------------------- MODULE Spec2Model ----------------------------
(***************************************************************************)
(* Group Po'Vuxa: gathering tokens into one party token (the surrogate)    *)
(* and dispersing the party token back into its member tokens.             *)
(*                                                                         *)
(* Coordinates are scene pixels, as in the source.  A token's x,y is its   *)
(* top-left corner, a search position is a cell centre.  Walls are the     *)
(* segments the obstruction tester is asked about; here every wall lies    *)
(* on one edge of a grid cell.                                             *)
(***************************************************************************)
EXTENDS Integers, Sequences, FiniteSets, TLC

VARIABLES
    tokens,        \* canvas.tokens.placeables: the token documents on the scene
    walls,         \* the wall segments of the scene
    actors,        \* game.actors: ids of the actors that exist
    activeParty,   \* scene flag 'activeParty' (Null when unset)
    partyCache,    \* PartyManager._partyCache
    formation,     \* setting 'defaultFormation'
    procs,         \* the asynchronous calls in flight, one record per task
    nextId         \* id the scene gives to the next created token

vars == <<tokens, walls, actors, activeParty, partyCache, formation, procs,
          nextId>>

(***************************************************************************)
(* Bounds of the model.                                                    *)
(***************************************************************************)
SceneW == 5        \* scene width in cells
SceneH == 3        \* scene height in cells
MaxMembers == 2    \* longest roster of an initial party
MaxSelected == 3   \* most tokens on hand for a gather

(***************************************************************************)
(* Values of the program.                                                  *)
(***************************************************************************)
GridSize == 100    \* canvas.grid.size
MaxCells == 200    \* budget disperseParty gives buildReachableSet
OccupancyMargin == 5
MinIterations == 2000
IterationsPerPosition == 500
FanPercent == 35

Null == [null |-> TRUE]
Pos(px, py) == [x |-> px, y |-> py]

Max(a, b) == IF a >= b THEN a ELSE b
Min(a, b) == IF a <= b THEN a ELSE b
Abs(a) == IF a < 0 THEN -a ELSE a
Sgn(a) == IF a < 0 THEN -1 ELSE IF a > 0 THEN 1 ELSE 0

\* floor(a / b) for b > 0 (Math.floor of a quotient)
FloorDiv(a, b) == a \div b

\* Math.round(a / b) for b > 0: the nearest integer, halves rounded up
RoundDiv(a, b) == (2 * a + b) \div (2 * b)

\* F applied to v, with v taken as a value first
Bind(v, F(_)) == CHOOSE r \in {F(x) : x \in {v}} : TRUE

\* Math.sqrt(dx * dx + dy * dy), to the nearest pixel
Hypot(dx, dy) ==
    CHOOSE r \in Max(Abs(dx), Abs(dy))..(Abs(dx) + Abs(dy)) :
        /\ (2 * r - 1) * (2 * r - 1) <= 4 * (dx * dx + dy * dy)
        /\ 4 * (dx * dx + dy * dy) < (2 * r + 1) * (2 * r + 1)

Range(s) == {s[i] : i \in DOMAIN s}

RECURSIVE SeqSum(_)
SeqSum(s) == IF s = <<>> THEN 0 ELSE Head(s) + SeqSum(Tail(s))

(***************************************************************************)
(* The scene: canvas.dimensions and the obstruction tester.                *)
(***************************************************************************)
SceneRect == [sceneX |-> 0, sceneY |-> 0,
              sceneWidth |-> SceneW * GridSize,
              sceneHeight |-> SceneH * GridSize]

\* A wall on the vertical grid line x, between y and y + GridSize
VWall(wx, wy) == [ax |-> wx, ay |-> wy, bx |-> wx, by |-> wy + GridSize]
\* A wall on the horizontal grid line y, between x and x + GridSize
HWall(wx, wy) == [ax |-> wx, ay |-> wy, bx |-> wx + GridSize, by |-> wy]

Orient(ox, oy, px, py, qx, qy) ==
    Sgn((px - ox) * (qy - oy) - (py - oy) * (qx - ox))

\* CONFIG.Canvas.polygonBackends.move.testCollision(A, B, {mode: 'any'}):
\* the segment from A to B meets a wall segment
SegmentsMeet(ax, ay, bx, by, w) ==
    LET d1 == Orient(w.ax, w.ay, w.bx, w.by, ax, ay)
        d2 == Orient(w.ax, w.ay, w.bx, w.by, bx, by)
        d3 == Orient(ax, ay, bx, by, w.ax, w.ay)
        d4 == Orient(ax, ay, bx, by, w.bx, w.by)
    IN IF d1 = 0 /\ d2 = 0 /\ d3 = 0 /\ d4 = 0
       THEN /\ Max(Min(ax, bx), Min(w.ax, w.bx)) <= Min(Max(ax, bx), Max(w.ax, w.bx))
            /\ Max(Min(ay, by), Min(w.ay, w.by)) <= Min(Max(ay, by), Max(w.ay, w.by))
       ELSE d1 # d2 /\ d3 # d4

testCollision(ws, ax, ay, bx, by) ==
    \E w \in ws : SegmentsMeet(ax, ay, bx, by, w)


(***************************************************************************)
(* TokenPlacer.                                                            *)
(***************************************************************************)
directions == <<
    [dx |-> 0,  dy |-> -1, diagonal |-> FALSE],
    [dx |-> 1,  dy |-> 0,  diagonal |-> FALSE],
    [dx |-> 0,  dy |-> 1,  diagonal |-> FALSE],
    [dx |-> -1, dy |-> 0,  diagonal |-> FALSE],
    [dx |-> 1,  dy |-> -1, diagonal |-> TRUE],
    [dx |-> 1,  dy |-> 1,  diagonal |-> TRUE],
    [dx |-> -1, dy |-> 1,  diagonal |-> TRUE],
    [dx |-> -1, dy |-> -1, diagonal |-> TRUE] >>

\* A faulty variant of isWithinSceneBounds that takes every point
isWithinSceneBoundsAnywhere(px, py) == TRUE

isWithinSceneBounds(px, py) ==
    /\ px >= SceneRect.sceneX
    /\ py >= SceneRect.sceneY
    /\ px < SceneRect.sceneX + SceneRect.sceneWidth
    /\ py < SceneRect.sceneY + SceneRect.sceneHeight

\* One occupant against the cell centred on (px, py), shrunk by the margin
FootprintOverlaps(t, px, py) ==
    LET halfGrid == GridSize \div 2
        checkLeft == px - halfGrid + OccupancyMargin
        checkRight == px + halfGrid - OccupancyMargin
        checkTop == py - halfGrid + OccupancyMargin
        checkBottom == py + halfGrid - OccupancyMargin
    IN /\ checkLeft < t.x + t.w * GridSize
       /\ checkRight > t.x
       /\ checkTop < t.y + t.h * GridSize
       /\ checkBottom > t.y

\* A faulty variant of isPositionOccupied that looks at the excluded tokens
isPositionOccupiedInverted(toks, px, py, excludeTokens) ==
    \E t \in toks : t.id \in excludeTokens /\ FootprintOverlaps(t, px, py)

isPositionOccupied(toks, px, py, excludeTokens) ==
    \E t \in toks : t.id \notin excludeTokens /\ FootprintOverlaps(t, px, py)

\* canvas.grid.getTopLeftPoint: the top-left corner of the cell holding the point
snapToTopLeft(px, py) ==
    Pos(FloorDiv(px, GridSize) * GridSize, FloorDiv(py, GridSize) * GridSize)

\* The three probes of one step: centre to centre, and the two fan rays
isStepClear(ws, fromX, fromY, toX, toY) ==
    IF Abs(fromX - toX) < 1 /\ Abs(fromY - toY) < 1 THEN TRUE
    ELSE IF testCollision(ws, fromX, fromY, toX, toY) THEN FALSE
    ELSE LET offset == (GridSize * FanPercent) \div 100
             dx == toX - fromX
             dy == toY - fromY
             len == Hypot(dx, dy)
         IN IF len > 0
            THEN Bind([x |-> RoundDiv((0 - dy) * offset, len),
                       y |-> RoundDiv(dx * offset, len)],
                      LAMBDA perp :
                          /\ ~testCollision(ws, fromX + perp.x, fromY + perp.y,
                                                toX + perp.x, toY + perp.y)
                          /\ ~testCollision(ws, fromX - perp.x, fromY - perp.y,
                                                toX - perp.x, toY - perp.y))
            ELSE TRUE

\* A faulty variant of Neighbours that counts a diagonal step as two
NeighboursDiagonalTwo(ws, current, visited) ==
    LET Step(i) == Pos(current.x + directions[i].dx * GridSize,
                       current.y + directions[i].dy * GridSize)
        Pushed(i) ==
            LET n == Step(i)
            IN /\ <<n.x, n.y>> \notin visited
               /\ directions[i].diagonal =>
                     \/ isStepClear(ws, current.x, current.y, n.x, current.y)
                     \/ isStepClear(ws, current.x, current.y, current.x, n.y)
               /\ isStepClear(ws, current.x, current.y, n.x, n.y)
    IN Bind(SelectSeq(<<1, 2, 3, 4, 5, 6, 7, 8>>, Pushed),
            LAMBDA kept :
                [k \in 1..Len(kept) |->
                    [x |-> Step(kept[k]).x, y |-> Step(kept[k]).y,
                     distance |-> current.distance
                         + (IF directions[kept[k]].diagonal THEN 2 ELSE 1)]])

\* The neighbours one expansion pushes on the queue, in direction order
Neighbours(ws, current, visited) ==
    LET Step(i) == Pos(current.x + directions[i].dx * GridSize,
                       current.y + directions[i].dy * GridSize)
        Pushed(i) ==
            LET n == Step(i)
            IN /\ <<n.x, n.y>> \notin visited
               /\ directions[i].diagonal =>
                     \/ isStepClear(ws, current.x, current.y, n.x, current.y)
                     \/ isStepClear(ws, current.x, current.y, current.x, n.y)
               /\ isStepClear(ws, current.x, current.y, n.x, n.y)
    IN Bind(SelectSeq(<<1, 2, 3, 4, 5, 6, 7, 8>>, Pushed),
            LAMBDA kept :
                [k \in 1..Len(kept) |->
                    [x |-> Step(kept[k]).x, y |-> Step(kept[k]).y,
                     distance |-> current.distance + 1]])

\* validPositions.sort((a, b) => a.distance - b.distance): a stable sort
RECURSIVE InsertByDistance(_, _)
InsertByDistance(sorted, p) ==
    IF sorted = <<>> THEN <<p>>
    ELSE IF sorted[Len(sorted)].distance <= p.distance THEN Append(sorted, p)
    ELSE Append(InsertByDistance(SubSeq(sorted, 1, Len(sorted) - 1), p),
                sorted[Len(sorted)])

RECURSIVE SortByDistance(_)
SortByDistance(s) ==
    IF s = <<>> THEN <<>>
    ELSE InsertByDistance(SortByDistance(SubSeq(s, 1, Len(s) - 1)), s[Len(s)])

\* The queue entries the loop only shifts: those before the first entry that
\* is neither visited nor out of bounds (0: no such entry). Each costs one
\* iteration and, when out of bounds, is added to visited
FirstFresh(queue, visited) ==
    LET fresh == {i \in 1..Len(queue) :
                     /\ <<queue[i].x, queue[i].y>> \notin visited
                     /\ isWithinSceneBounds(queue[i].x, queue[i].y)}
    IN IF fresh = {} THEN 0 ELSE CHOOSE i \in fresh : \A j \in fresh : i <= j

OutsideKeys(queue, skipped) ==
    {<<queue[i].x, queue[i].y>> : i \in {k \in 1..skipped :
                                     ~isWithinSceneBounds(queue[k].x, queue[k].y)}}

\* The while loop of findValidPositions, one round per expanded cell: s is
\* the loop state on entry, j the entry to expand, e the expanded cell
RECURSIVE findValidLoop(_, _, _, _, _, _, _, _)
findValidLoop(toks, ws, queue, visited, validPositions, iterations, count, excludeTokens) ==
    LET maxIterations == Max(MinIterations, count * IterationsPerPosition)
        Expand(s, j) ==
            Bind([current |-> s.queue[j],
                  seen |-> s.visited \cup OutsideKeys(s.queue, j - 1)
                               \cup {<<s.queue[j].x, s.queue[j].y>>}],
                 LAMBDA e :
                     findValidLoop(s.toks, s.ws,
                         SubSeq(s.queue, j + 1, Len(s.queue))
                             \o Neighbours(s.ws, e.current, e.seen),
                         e.seen,
                         IF isPositionOccupied(s.toks, e.current.x, e.current.y,
                                               s.excludeTokens)
                         THEN s.validPositions
                         ELSE Append(s.validPositions, e.current),
                         s.iterations + j, s.count, s.excludeTokens))
    IN Bind([toks |-> toks, ws |-> ws, queue |-> queue, visited |-> visited,
             validPositions |-> validPositions, iterations |-> iterations,
             count |-> count, excludeTokens |-> excludeTokens],
            LAMBDA s :
                Bind(FirstFresh(s.queue, s.visited),
                     LAMBDA j :
                         IF \/ Len(s.validPositions) >= s.count
                            \/ j = 0
                            \/ s.iterations + (j - 1) >= maxIterations
                         THEN s.validPositions
                         ELSE Expand(s, j)))

findValidPositions(toks, ws, centerX, centerY, count, excludeTokens) ==
    Bind(findValidLoop(toks, ws,
                       <<[x |-> centerX, y |-> centerY, distance |-> 0]>>,
                       {}, <<>>, 0, count, excludeTokens),
         SortByDistance)

\* The while loop of buildReachableSet, one round per expanded cell
RECURSIVE reachableLoop(_, _, _, _, _, _)
reachableLoop(ws, queue, visited, reachable, iterations, maxCells) ==
    LET Expand(s, j) ==
            Bind([current |-> s.queue[j],
                  seen |-> s.visited \cup OutsideKeys(s.queue, j - 1)
                               \cup {<<s.queue[j].x, s.queue[j].y>>}],
                 LAMBDA e :
                     reachableLoop(s.ws,
                         SubSeq(s.queue, j + 1, Len(s.queue))
                             \o Neighbours(s.ws, e.current, e.seen),
                         e.seen,
                         s.reachable \cup {<<e.current.x, e.current.y>>},
                         s.iterations + j, s.maxCells))
    IN Bind([ws |-> ws, queue |-> queue, visited |-> visited,
             reachable |-> reachable, iterations |-> iterations,
             maxCells |-> maxCells],
            LAMBDA s :
                Bind(FirstFresh(s.queue, s.visited),
                     LAMBDA j :
                         IF j = 0 \/ s.iterations + (j - 1) >= s.maxCells
                         THEN s.reachable
                         ELSE Expand(s, j)))

\* A faulty variant of buildReachableSet that stops at the origin cell
buildReachableSetOriginOnly(ws, centerX, centerY, maxCells) ==
    {<<centerX, centerY>>}

buildReachableSet(ws, centerX, centerY, maxCells) ==
    reachableLoop(ws, <<[x |-> centerX, y |-> centerY, distance |-> 0]>>,
                  {}, {}, 0, maxCells)

(***************************************************************************)
(* FormationPresets.                                                       *)
(***************************************************************************)
\* Math.cos and Math.sin of a quarter turn count, as Math.round leaves them
QuarterCos(deg) == CASE deg % 360 = 0 -> 1
                     [] deg % 360 = 90 -> 0
                     [] deg % 360 = 180 -> -1
                     [] deg % 360 = 270 -> 0
QuarterSin(deg) == QuarterCos(deg + 270)

\* 10^6 * Math.cos of a whole number of degrees, for the angles the rings use
CosMicro(deg) ==
    LET d == deg % 360
        e == IF d > 180 THEN 360 - d ELSE d
        acute(a) == CASE a = 0 -> 1000000 [] a = 10 -> 984808
                      [] a = 18 -> 951057 [] a = 20 -> 939693
                      [] a = 30 -> 866025 [] a = 36 -> 809017
                      [] a = 40 -> 766044 [] a = 45 -> 707107
                      [] a = 50 -> 642788 [] a = 54 -> 587785
                      [] a = 60 -> 500000 [] a = 70 -> 342020
                      [] a = 72 -> 309017 [] a = 80 -> 173648
                      [] a = 90 -> 0
    IN IF e > 90 THEN 0 - acute(180 - e) ELSE acute(e)
SinMicro(deg) == CosMicro(deg + 270)

\* 10^6 * Math.cos and Math.sin of k sevenths of a turn
SeventhCos(k) == <<1000000, 623490, -222521, -900969, -900969, -222521, 623490>>[(k % 7) + 1]
SeventhSin(k) == <<0, 781831, 974928, 433884, -433884, -974928, -781831>>[(k % 7) + 1]

\* 10^6 * cos and sin of angle = i * angleStep - Math.PI / 2, where
\* angleStep is a turn divided by remaining
RingCos(i, remaining) ==
    IF remaining = 7 THEN SeventhSin(i)
    ELSE CosMicro((i * 360) \div remaining - 90)
RingSin(i, remaining) ==
    IF remaining = 7 THEN 0 - SeventhCos(i)
    ELSE SinMicro((i * 360) \div remaining - 90)

\* ceil(sqrt(count))
CeilSqrt(n) == CHOOSE r \in 0..n : r * r >= n /\ (r = 0 \/ (r - 1) * (r - 1) < n)

rotatePositions(positions, directionDegrees) ==
    IF directionDegrees = 0 THEN positions
    ELSE LET cos == QuarterCos(directionDegrees)
             sin == QuarterSin(directionDegrees)
         IN [i \in 1..Len(positions) |->
                [dx |-> positions[i].dx * cos - positions[i].dy * sin,
                 dy |-> positions[i].dx * sin + positions[i].dy * cos,
                 order |-> positions[i].order]]

linePositions(count, direction) ==
    LET startOffset == 0 - (count \div 2)
    IN rotatePositions(
          [i \in 1..count |->
              [dx |-> (startOffset + (i - 1)) * GridSize, dy |-> 0,
               order |-> i - 1]],
          direction)

wedgePositions(count, direction) ==
    rotatePositions(
        [i \in 1..Max(count, 1) |->
            IF i = 1 THEN [dx |-> 0, dy |-> 0, order |-> 0]
            ELSE LET row == i \div 2
                 IN [dx |-> (IF i % 2 = 0 THEN 0 - row ELSE row) * GridSize,
                     dy |-> row * GridSize, order |-> i - 1]],
        direction)

\* A faulty variant of circlePositions whose ring starts in the east
circlePositionsFromEast(count, direction) ==
    LET remaining == count - 1
        radius == GridSize
    IN rotatePositions(
          [i \in 1..count |->
              IF i = 1 THEN [dx |-> 0, dy |-> 0, order |-> 0]
              ELSE [dx |-> RoundDiv(RingCos(i - 1, remaining) * radius, 1000000),
                    dy |-> RoundDiv(RingSin(i - 1, remaining) * radius, 1000000),
                    order |-> i - 1]],
          direction)

circlePositions(count, direction) ==
    LET remaining == count - 1
        radius == GridSize
    IN rotatePositions(
          [i \in 1..count |->
              IF i = 1 THEN [dx |-> 0, dy |-> 0, order |-> 0]
              ELSE [dx |-> RoundDiv(RingCos(i - 2, remaining) * radius, 1000000),
                    dy |-> RoundDiv(RingSin(i - 2, remaining) * radius, 1000000),
                    order |-> i - 1]],
          direction)

squarePositions(count, direction) ==
    LET side == CeilSqrt(count)
        startX == 0 - (side \div 2)
        startY == 0 - (side \div 2)
    IN rotatePositions(
          [i \in 1..count |->
              [dx |-> (startX + ((i - 1) % side)) * GridSize,
               dy |-> (startY + ((i - 1) \div side)) * GridSize,
               order |-> i - 1]],
          direction)

snakePositions(count, direction) ==
    rotatePositions(
        [i \in 1..count |-> [dx |-> 0, dy |-> (i - 1) * GridSize, order |-> i - 1]],
        direction)

\* FormationPresets.FORMATIONS: the built-in patterns
FORMATIONS == {"line", "wedge", "circle", "square", "snake"}

getPositions(formationId, count, direction) ==
    CASE formationId = "line" -> linePositions(count, direction)
      [] formationId = "wedge" -> wedgePositions(count, direction)
      [] formationId = "circle" -> circlePositions(count, direction)
      [] formationId = "square" -> squarePositions(count, direction)
      [] formationId = "snake" -> snakePositions(count, direction)

\* A faulty variant of BestMatch that takes the first candidate not yet used
BestMatchFirstFree(availablePositions, used, targetX, targetY) ==
    CHOOSE i \in 1..Len(availablePositions) :
        i \notin used /\ \A j \in 1..Len(availablePositions) : j \notin used => i <= j

\* The nearest not yet used candidate: the first index of least distance
BestMatch(availablePositions, used, targetX, targetY) ==
    LET free == {i \in 1..Len(availablePositions) : i \notin used}
        d2(i) == (availablePositions[i].x - targetX) * (availablePositions[i].x - targetX)
               + (availablePositions[i].y - targetY) * (availablePositions[i].y - targetY)
    IN CHOOSE i \in free :
          \A j \in free : d2(i) < d2(j) \/ (d2(i) = d2(j) /\ i <= j)

RECURSIVE applyLoop(_, _, _, _, _)
applyLoop(availablePositions, idealPositions, k, result, used) ==
    IF k > Len(idealPositions) THEN [result |-> result, used |-> used]
    ELSE LET center == availablePositions[1]
             targetX == center.x + idealPositions[k].dx
             targetY == center.y + idealPositions[k].dy
         IN IF \A i \in 1..Len(availablePositions) : i \in used
            THEN applyLoop(availablePositions, idealPositions, k + 1, result, used)
            ELSE LET best == BestMatch(availablePositions, used, targetX, targetY)
                 IN applyLoop(availablePositions, idealPositions, k + 1,
                              Append(result, availablePositions[best]),
                              used \cup {best})

\* FormationPresets.apply
apply(formationId, availablePositions, direction) ==
    IF formationId \notin FORMATIONS \/ Len(availablePositions) = 0
    THEN availablePositions
    ELSE LET count == Len(availablePositions)
             idealPositions == getPositions(formationId, count, direction)
             matched == applyLoop(availablePositions, idealPositions, 1, <<>>, {})
             rest == SelectSeq([i \in 1..count |-> i],
                               LAMBDA i : i \notin matched.used)
         IN matched.result \o [k \in 1..Len(rest) |-> availablePositions[rest[k]]]

(***************************************************************************)
(* PartyManager.disperseParty: resolving the final positions.             *)
(***************************************************************************)
FallbackPadding == 2
EmergencyPadding == 5

PartyCenter(party) ==
    Pos(party.x + (party.w * GridSize) \div 2, party.y + (party.h * GridSize) \div 2)

\* Step 2 for one member: the slot its recorded offset names, validated
\* against the reachable set and the cells claimed so far
GridSlot(member, party) ==
    LET gx == member.gridPos.x
        gy == member.gridPos.y
        baseDx == gx * GridSize
        baseDy == gy * GridSize
        angle == party.rotation
        cos == QuarterCos(angle)
        sin == QuarterSin(angle)
        rotX == baseDx * cos - baseDy * sin
        rotY == baseDx * sin + baseDy * cos
        centre == PartyCenter(party)
        slotCenterX == centre.x + rotX
        slotCenterY == centre.y + rotY
        targetTLX == slotCenterX - (GridSize * member.width) \div 2
        targetTLY == slotCenterY - (GridSize * member.height) \div 2
        snapped == snapToTopLeft(targetTLX, targetTLY)
    IN IF gx = 0 /\ gy = 0 THEN Pos(party.x, party.y) ELSE snapped

RECURSIVE gridPlacement(_, _, _, _, _)
gridPlacement(members, party, reachableSet, index, st) ==
    IF index > Len(members) THEN st
    ELSE LET member == members[index]
         IN IF member.gridPos = Null
            THEN gridPlacement(members, party, reachableSet, index + 1,
                    [st EXCEPT !.membersWithoutSpot = Append(@, index)])
            ELSE LET snapped == GridSlot(member, party)
                     snappedCenterX == snapped.x + (GridSize * member.width) \div 2
                     snappedCenterY == snapped.y + (GridSize * member.height) \div 2
                     isReachable == <<snappedCenterX, snappedCenterY>> \in reachableSet
                     isOccupied == <<snapped.x, snapped.y>> \in st.occupiedCoords
                     isLeaderSpot == member.gridPos.x = 0 /\ member.gridPos.y = 0
                 IN IF (isReachable /\ ~isOccupied) \/ isLeaderSpot
                    THEN gridPlacement(members, party, reachableSet, index + 1,
                            [st EXCEPT !.finalPositions[index] = snapped,
                                       !.occupiedCoords = @ \cup {<<snapped.x, snapped.y>>}])
                    ELSE gridPlacement(members, party, reachableSet, index + 1,
                            [st EXCEPT !.membersWithoutSpot = Append(@, index)])

\* A faulty variant of Unclaimed that drops every candidate
UnclaimedNone(positions, occupiedCoords) == <<>>

\* Candidates whose own coordinates are not among the claimed coordinates
Unclaimed(positions, occupiedCoords) ==
    SelectSeq(positions, LAMBDA q : <<q.x, q.y>> \notin occupiedCoords)

\* Step 3: the members without a spot take the candidates in bucket order
RECURSIVE distribute(_, _, _, _, _, _)
distribute(toks, ws, party, available, i, st) ==
    IF i > Len(st.membersWithoutSpot) THEN st
    ELSE LET memberIndex == st.membersWithoutSpot[i]
             centre == PartyCenter(party)
             Placed(emergencyAvail) ==
                 IF Len(emergencyAvail) > 0
                 THEN LET snapped == snapToTopLeft(emergencyAvail[1].x,
                                                   emergencyAvail[1].y)
                      IN [st EXCEPT !.finalPositions[memberIndex] = snapped,
                                    !.occupiedCoords = @ \cup {<<snapped.x, snapped.y>>}]
                 ELSE [st EXCEPT !.finalPositions[memberIndex] = Pos(party.x, party.y),
                                 !.pinned = @ \cup {memberIndex}]
         IN IF i <= Len(available)
            THEN LET snapped == snapToTopLeft(available[i].x, available[i].y)
                 IN Bind([st EXCEPT !.finalPositions[memberIndex] = snapped,
                                    !.occupiedCoords = @ \cup {<<snapped.x, snapped.y>>}],
                         LAMBDA next : distribute(toks, ws, party, available, i + 1, next))
            ELSE Bind(Placed(Unclaimed(
                          findValidPositions(toks, ws, centre.x, centre.y,
                              Cardinality(st.occupiedCoords) + EmergencyPadding,
                              {party.id}),
                          st.occupiedCoords)),
                      LAMBDA next : distribute(toks, ws, party, available, i + 1, next))

\* A faulty variant of resolveFinalPositions without the memory pass: every
\* member is treated as a member without a spot
resolveFinalPositionsSearchOnly(toks, ws, party, members) ==
    LET centre == PartyCenter(party)
        st0 == [finalPositions |-> [i \in 1..Len(members) |-> Null],
                occupiedCoords |-> {},
                membersWithoutSpot |-> [i \in 1..Len(members) |-> i],
                pinned |-> {}]
    IN Bind(Unclaimed(
                findValidPositions(toks, ws, centre.x, centre.y,
                    Len(members) + FallbackPadding, {party.id}),
                {}),
            LAMBDA available : distribute(toks, ws, party, available, 1, st0))

\* Steps 1 to 3 of the try block: finalPositions, and which members were
\* pinned to the party position as the last resort
resolveFinalPositions(toks, ws, party, members) ==
    LET centre == PartyCenter(party)
        st0 == [finalPositions |-> [i \in 1..Len(members) |-> Null],
                occupiedCoords |-> {},
                membersWithoutSpot |-> <<>>,
                pinned |-> {}]
        Fallback(st) ==
            IF Len(st.membersWithoutSpot) > 0
            THEN LET needed == Len(st.membersWithoutSpot)
                 IN Bind(Unclaimed(
                             findValidPositions(toks, ws, centre.x, centre.y,
                                 needed + Cardinality(st.occupiedCoords) + FallbackPadding,
                                 {party.id}),
                             st.occupiedCoords),
                         LAMBDA available : distribute(toks, ws, party, available, 1, st))
            ELSE st
    IN Bind(buildReachableSet(ws, centre.x, centre.y, MaxCells),
            LAMBDA reachableSet :
                Bind(gridPlacement(members, party, reachableSet, 1, st0), Fallback))

\* The candidates the formation path asks for
formationCandidates(toks, ws, party, members) ==
    LET centre == PartyCenter(party)
    IN findValidPositions(toks, ws, centre.x, centre.y, Len(members), {party.id})

\* A faulty variant of formatPositions that takes the formation path unless
\* every member has a recorded offset
formatPositionsUnlessAll(toks, ws, party, members, formationId) ==
    LET hasAnyGridPos == \A i \in 1..Len(members) : members[i].gridPos # Null
    IN IF ~hasAnyGridPos
       THEN Bind(formationCandidates(toks, ws, party, members),
                 LAMBDA validRef :
                     Bind(apply(formationId, validRef, party.rotation),
                          LAMBDA placed :
                              [formattedPositions |->
                                   [i \in 1..Len(placed) |-> Pos(placed[i].x, placed[i].y)],
                               pinned |-> {},
                               searched |-> TRUE,
                               validRef |-> validRef,
                               membersWithoutSpot |-> <<>>]))
       ELSE Bind(resolveFinalPositions(toks, ws, party, members),
                 LAMBDA st : [formattedPositions |-> st.finalPositions,
                              pinned |-> st.pinned,
                              searched |-> FALSE,
                              validRef |-> <<>>,
                              membersWithoutSpot |-> st.membersWithoutSpot])

\* Steps 1 to 3 and the formation path: formattedPositions is finalPositions,
\* or the formation applied to fresh candidates (validRef) when no member has
\* a recorded offset; pinned and validRef are kept beside it
formatPositions(toks, ws, party, members, formationId) ==
    LET hasAnyGridPos == \E i \in 1..Len(members) : members[i].gridPos # Null
    IN IF ~hasAnyGridPos
       THEN Bind(formationCandidates(toks, ws, party, members),
                 LAMBDA validRef :
                     Bind(apply(formationId, validRef, party.rotation),
                          LAMBDA placed :
                              [formattedPositions |->
                                   [i \in 1..Len(placed) |-> Pos(placed[i].x, placed[i].y)],
                               pinned |-> {},
                               searched |-> TRUE,
                               validRef |-> validRef,
                               membersWithoutSpot |-> <<>>]))
       ELSE Bind(resolveFinalPositions(toks, ws, party, members),
                 LAMBDA st : [formattedPositions |-> st.finalPositions,
                              pinned |-> st.pinned,
                              searched |-> FALSE,
                              validRef |-> <<>>,
                              membersWithoutSpot |-> st.membersWithoutSpot])

\* Step 4: more than half of the positions are null
rollbackNeeded(formattedPositions, members) ==
    LET nullCount == Cardinality({i \in 1..Len(formattedPositions) :
                                      formattedPositions[i] = Null})
    IN 2 * nullCount > Len(members)

(***************************************************************************)
(* The scene the model starts from: one party token in the middle of the   *)
(* scene, with a roster a gather and the arrangement editor can leave,     *)
(* walls, and other occupants.                                             *)
(***************************************************************************)
Procs == {"p1", "p2", "p3", "p4"}

\* The tasks of two calls that race
Racers == {"p1", "p2"}

PartyCell == Pos((SceneW \div 2) * GridSize, (SceneH \div 2) * GridSize)

\* The offsets the initial rosters record (Null: none recorded)
OffsetPool == {Null, Pos(0, 0), Pos(1, 0), Pos(0, -1)}

Member(i, offset) ==
    [tokenId |-> 10 + i, actorId |-> 20 + i, gridPos |-> offset,
     width |-> 1, height |-> 1]

\* Rosters of 1..MaxMembers snapshots whose recorded offsets are distinct
InitRosters ==
    UNION {
        {[i \in 1..n |-> Member(i, f[i])] :
            f \in {g \in [1..n -> OffsetPool] :
                      \A i, j \in 1..n :
                          (i # j /\ g[i] # Null) => g[i] # g[j]}}
        : n \in 1..MaxMembers}

\* No wall; a wall along the grid line east of the party cell, from the top
\* of the scene to the bottom; walls on the four edges of the party cell
InitWalls ==
    { {},
      {VWall(PartyCell.x + GridSize, k * GridSize) : k \in 0..(SceneH - 1)},
      {VWall(PartyCell.x, PartyCell.y), VWall(PartyCell.x + GridSize, PartyCell.y),
       HWall(PartyCell.x, PartyCell.y), HWall(PartyCell.x, PartyCell.y + GridSize)} }

Occupant(k, px, py) ==
    [id |-> 200 + k, x |-> px, y |-> py, w |-> 1, h |-> 1, rotation |-> 0,
     actorId |-> 30 + k, isPartyToken |-> FALSE, members |-> <<>>,
     dispersing |-> FALSE, src |-> 0]

\* No occupant; one in the cell east of the party; one under the party token
InitOccupants ==
    { {},
      {Occupant(1, PartyCell.x + GridSize, PartyCell.y)},
      {Occupant(2, PartyCell.x, PartyCell.y)} }

PartyToken(roster, rot, busy) ==
    [id |-> 100, x |-> PartyCell.x, y |-> PartyCell.y, w |-> 1, h |-> 1,
     rotation |-> rot, actorId |-> 0, isPartyToken |-> TRUE,
     members |-> roster, dispersing |-> busy, src |-> 0]

RosterActors(roster) == {roster[i].actorId : i \in 1..Len(roster)}

IdleProc ==
    [op |-> "none", pc |-> "idle", party |-> 0, members |-> <<>>,
     partyPos |-> Null, positions |-> <<>>, tokensData |-> <<>>,
     restored |-> <<>>, sawFlag |-> FALSE, setFlag |-> FALSE,
     unplaced |-> 0, candidates |-> -1, outcome |-> "none", notes |-> {},
     log |-> <<>>, selection |-> <<>>, center |-> Null, result |-> Null,
     via |-> "none", arg |-> Null, membersWithoutSpot |-> <<>>]

\* The scenes: every roster among every wall layout and occupant; a turned
\* party token; a busy flag a crashed run left set; rosters whose actors
\* are gone
InitScenes ==
    {[roster |-> r, ws |-> w, occ |-> o, rot |-> 0, busy |-> FALSE, orphaned |-> FALSE] :
        r \in InitRosters, w \in InitWalls, o \in InitOccupants}
    \cup {[roster |-> r, ws |-> w, occ |-> {}, rot |-> 90, busy |-> FALSE, orphaned |-> FALSE] :
        r \in InitRosters, w \in InitWalls}
    \cup {[roster |-> r, ws |-> {}, occ |-> {}, rot |-> 0, busy |-> b, orphaned |-> o] :
        r \in InitRosters, b \in BOOLEAN, o \in BOOLEAN}

\* The scenes two calls race on
RaceScenes ==
    {sc \in InitScenes :
        /\ sc.ws = {} /\ sc.occ = {} /\ sc.rot = 0 /\ ~sc.orphaned
        /\ \A i \in 1..Len(sc.roster) : sc.roster[i].gridPos = Null}

\* One task on any scene, or two tasks on a scene of RaceScenes; a task
\* that is off makes no call.  In an orphaned scene some or all of the
\* roster's actors have been deleted from the world
Init ==
    \E sc \in InitScenes, tasks \in {{"p1"}, Racers} :
    \E gone \in SUBSET RosterActors(sc.roster) :
        /\ tasks = Racers => sc \in RaceScenes
        /\ sc.orphaned <=> gone # {}
        /\ tokens = {PartyToken(sc.roster, sc.rot, sc.busy)} \cup sc.occ
        /\ walls = sc.ws
        /\ actors = RosterActors(sc.roster) \ gone
        /\ activeParty = [partyTokenId |-> 100,
                          members |-> [i \in 1..Len(sc.roster) |->
                                          [tokenId |-> sc.roster[i].tokenId,
                                           actorId |-> sc.roster[i].actorId]]]
        /\ partyCache = Null
        /\ formation = "line"
        /\ procs = [p \in Procs |->
                       IF p \in tasks THEN IdleProc ELSE [IdleProc EXCEPT !.pc = "off"]]
        /\ nextId = 1

(***************************************************************************)
(* PartyManager: restoring the members, and the steps of disperseParty.    *)
(* An async call is a task of procs; each action is the effect of the      *)
(* awaited call at the task's position and the synchronous code after it,  *)
(* up to the next await.                                                   *)
(***************************************************************************)
OnScene(id) == \E t \in tokens : t.id = id

TokenById(id) == CHOOSE t \in tokens : t.id = id

PartyTokens == {t \in tokens : t.isPartyToken}

\* _restoreMembers, up to the batch creation: the token data of the members
\* whose actor exists, each with positions[i] || positions[last] || {0,0}
restoreMembersData(members, positions, acts) ==
    LET n == Len(positions)
        position(i) ==
            IF i <= n /\ positions[i] # Null THEN positions[i]
            ELSE IF n > 0 /\ positions[n] # Null THEN positions[n]
            ELSE Pos(0, 0)
        all == [i \in 1..Len(members) |->
                   [member |-> members[i], position |-> position(i)]]
    IN SelectSeq(all, LAMBDA d : d.member.actorId \in acts)

\* canvas.scene.createEmbeddedDocuments('Token', tokensData)
createEmbeddedDocuments(tokensData, firstId) ==
    {[id |-> firstId + k - 1,
      x |-> tokensData[k].position.x, y |-> tokensData[k].position.y,
      w |-> tokensData[k].member.width, h |-> tokensData[k].member.height,
      rotation |-> 0, actorId |-> tokensData[k].member.actorId,
      isPartyToken |-> FALSE, members |-> <<>>, dispersing |-> FALSE,
      src |-> tokensData[k].member.tokenId] : k \in 1..Len(tokensData)}

\* document.setFlag / unsetFlag of 'dispersing' on the party token
WithFlag(toks, id, value) ==
    {IF t.id = id THEN [t EXCEPT !.dispersing = value] ELSE t : t \in toks}

\* A faulty variant of disperseEntry that returns when it finds the flag set
disperseEntryBlocking(pr, t) ==
    IF Len(t.members) = 0
    THEN [pr EXCEPT !.op = "disperse", !.pc = "done", !.party = t.id,
                    !.outcome = "noMembers"]
    ELSE IF t.dispersing
    THEN [pr EXCEPT !.op = "disperse", !.pc = "done", !.party = t.id,
                    !.members = t.members, !.sawFlag = TRUE,
                    !.outcome = "blocked"]
    ELSE [pr EXCEPT !.op = "disperse", !.party = t.id, !.members = t.members,
                    !.pc = "setFlag"]

\* The first lines of disperseParty, up to the first await
disperseEntry(pr, t) ==
    IF Len(t.members) = 0
    THEN [pr EXCEPT !.op = "disperse", !.pc = "done", !.party = t.id,
                    !.outcome = "noMembers"]
    ELSE [pr EXCEPT !.op = "disperse", !.party = t.id, !.members = t.members,
                    !.sawFlag = t.dispersing,
                    !.pc = IF t.dispersing THEN "unsetFlag" ELSE "setFlag"]

\* The panel, the scene control or the API calls disperseParty(partyToken)
DisperseCall(p) ==
    /\ procs[p].pc = "idle"
    /\ \E t \in PartyTokens : procs' = [procs EXCEPT ![p] = disperseEntry(@, t)]
    /\ UNCHANGED <<tokens, walls, actors, activeParty, partyCache, formation, nextId>>

\* await unsetFlag('dispersing') of a flag found set; rejects when the token
\* is gone, and the rejection leaves disperseParty before the try block
DisperseUnsetFlag(p) ==
    /\ procs[p].pc = "unsetFlag"
    /\ IF OnScene(procs[p].party)
       THEN /\ tokens' = WithFlag(tokens, procs[p].party, FALSE)
            /\ procs' = [procs EXCEPT ![p].pc = "setFlag"]
       ELSE /\ procs' = [procs EXCEPT ![p].pc = "done", ![p].outcome = "threw"]
            /\ UNCHANGED tokens
    /\ UNCHANGED <<walls, actors, activeParty, partyCache, formation, nextId>>

\* await setFlag('dispersing', true), then steps 1 to 6 up to the batch
\* creation inside _restoreMembers
DisperseSetFlag(p) ==
    /\ procs[p].pc = "setFlag"
    /\ IF ~OnScene(procs[p].party)
       THEN /\ procs' = [procs EXCEPT ![p].pc = "done", ![p].outcome = "threw"]
            /\ UNCHANGED tokens
       ELSE \E toks \in {WithFlag(tokens, procs[p].party, TRUE)} :
            \E party \in {t \in toks : t.id = procs[p].party} :
            \E f \in {formatPositions(toks, walls, party, procs[p].members, formation)} :
               LET members == procs[p].members
                   formattedPositions == f.formattedPositions
                   partyPos == Pos(party.x, party.y)
                   tokensData == restoreMembersData(members,
                                     [i \in 1..Len(formattedPositions) |-> partyPos],
                                     actors)
                   computed == [procs[p] EXCEPT
                                   !.setFlag = TRUE,
                                   !.partyPos = partyPos,
                                   !.positions = formattedPositions,
                                   !.unplaced = Cardinality(f.pinned)
                                       + (Len(members) - Len(formattedPositions)),
                                   !.candidates = IF f.searched THEN Len(f.validRef)
                                                  ELSE -1,
                                   !.membersWithoutSpot = f.membersWithoutSpot]
               IN /\ tokens' = toks
                  /\ procs' = [procs EXCEPT ![p] =
                       IF rollbackNeeded(formattedPositions, members)
                       THEN [computed EXCEPT !.pc = "finally", !.outcome = "rollback",
                                             !.notes = @ \cup {"CannotPlaceAll"}]
                       ELSE [computed EXCEPT
                               !.tokensData = tokensData,
                               !.pc = IF Len(tokensData) = 0 THEN "delete" ELSE "create",
                               !.notes = IF Len(formattedPositions) < Len(members)
                                         THEN @ \cup {"CannotPlaceAll"} ELSE @]]
    /\ UNCHANGED <<walls, actors, activeParty, partyCache, formation, nextId>>

\* The batch creation of _restoreMembers resolves: the tokens are on the
\* scene, and the deletion of the party token is requested
DisperseCreate(p) ==
    /\ procs[p].pc = "create"
    /\ tokens' = tokens \cup createEmbeddedDocuments(procs[p].tokensData, nextId)
    /\ nextId' = nextId + Len(procs[p].tokensData)
    /\ procs' = [procs EXCEPT
            ![p].restored = [k \in 1..Len(procs[p].tokensData) |-> nextId + k - 1],
            ![p].log = Append(@, "created"),
            ![p].pc = "delete"]
    /\ UNCHANGED <<walls, actors, activeParty, partyCache, formation>>

\* A faulty variant of DisperseCreateFail that returns from the catch block
\* without the finally block
DisperseCreateFailNoFinally(p) ==
    /\ procs[p].pc = "create"
    /\ procs' = [procs EXCEPT ![p].pc = "done", ![p].outcome = "error",
                              ![p].notes = @ \cup {"error"}]
    /\ UNCHANGED <<tokens, walls, actors, activeParty, partyCache, formation, nextId>>

\* The batch creation rejects: the catch block reports the error
DisperseCreateFail(p) ==
    /\ procs[p].pc = "create"
    /\ procs' = [procs EXCEPT ![p].pc = "finally", ![p].outcome = "error",
                              ![p].notes = @ \cup {"error"}]
    /\ UNCHANGED <<tokens, walls, actors, activeParty, partyCache, formation, nextId>>

\* delete({groupPovuxaDispersing: true}) of the party token (a rejection is
\* swallowed), then the call of _animateDisperse up to its timer
DisperseDelete(p) ==
    /\ procs[p].pc = "delete"
    /\ tokens' = {t \in tokens : t.id # procs[p].party}
    /\ procs' = [procs EXCEPT
            ![p].log = Append(@, "deleted"),
            ![p].pc = IF Len(procs[p].restored) > 0 THEN "animate" ELSE "clear"]
    /\ UNCHANGED <<walls, actors, activeParty, partyCache, formation, nextId>>

\* updateBatch of _animateDisperse: restored token i takes finalPositions[i]
updateBatch(restored, finalPositions) ==
    LET idx == SelectSeq([i \in 1..Len(restored) |-> i],
                         LAMBDA i : i <= Len(finalPositions) /\ finalPositions[i] # Null)
    IN [k \in 1..Len(idx) |->
           [id |-> restored[idx[k]],
            x |-> finalPositions[idx[k]].x, y |-> finalPositions[idx[k]].y]]

\* The 100 ms timer of _animateDisperse fires
DisperseAnimate(p) ==
    /\ procs[p].pc = "animate"
    /\ procs' = [procs EXCEPT ![p].pc =
            IF Len(updateBatch(procs[p].restored, procs[p].positions)) > 0
            THEN "update" ELSE "clear"]
    /\ UNCHANGED <<tokens, walls, actors, activeParty, partyCache, formation, nextId>>

\* canvas.scene.updateEmbeddedDocuments('Token', updateBatch)
updateEmbeddedDocuments(toks, batch) ==
    {IF \E k \in 1..Len(batch) : batch[k].id = t.id
     THEN LET k == CHOOSE k \in 1..Len(batch) : batch[k].id = t.id
          IN [t EXCEPT !.x = batch[k].x, !.y = batch[k].y]
     ELSE t : t \in toks}

\* The batch update resolves (it rejects when a token of the batch is gone)
DisperseUpdate(p) ==
    /\ procs[p].pc = "update"
    /\ LET batch == updateBatch(procs[p].restored, procs[p].positions)
       IN IF \A k \in 1..Len(batch) : OnScene(batch[k].id)
          THEN /\ tokens' = updateEmbeddedDocuments(tokens, batch)
               /\ procs' = [procs EXCEPT ![p].log = Append(@, "moved"),
                                         ![p].pc = "clear"]
          ELSE /\ procs' = [procs EXCEPT ![p].pc = "finally", ![p].outcome = "error",
                                         ![p].notes = @ \cup {"error"}]
               /\ UNCHANGED tokens
    /\ UNCHANGED <<walls, actors, activeParty, partyCache, formation, nextId>>

\* _clearPartyState resolves; the success notice; the cache is dropped
DisperseClear(p) ==
    /\ procs[p].pc = "clear"
    /\ activeParty' = Null
    /\ partyCache' = Null
    /\ procs' = [procs EXCEPT ![p].pc = "finally", ![p].outcome = "success",
                              ![p].notes = @ \cup {"DisperseSuccess"}]
    /\ UNCHANGED <<tokens, walls, actors, formation, nextId>>

\* finally: unsetFlag('dispersing'), a rejection being swallowed
DisperseFinally(p) ==
    /\ procs[p].pc = "finally"
    /\ tokens' = WithFlag(tokens, procs[p].party, FALSE)
    /\ procs' = [procs EXCEPT ![p].pc = "done"]
    /\ UNCHANGED <<walls, actors, activeParty, partyCache, formation, nextId>>

(***************************************************************************)
(* main.js: the preDeleteToken hook                                        *)
(***************************************************************************)
\* A user deletes the party token: the hook cancels the deletion and sets a
\* 50 ms timer
UserDelete(p) ==
    /\ procs[p].pc = "idle"
    /\ \E t \in PartyTokens :
          procs' = [procs EXCEPT ![p].op = "hook", ![p].pc = "timer",
                                 ![p].party = t.id,
                                 ![p].notes = @ \cup {"AutoDisperseInfo"}]
    /\ UNCHANGED <<tokens, walls, actors, activeParty, partyCache, formation, nextId>>

\* The timer fires: disperseParty(tokenObject) when the token still has its
\* document; a call on a token that is gone rejects at its first await
HookFire(p) ==
    /\ procs[p].pc = "timer"
    /\ procs' = [procs EXCEPT ![p] =
            IF OnScene(procs[p].party)
            THEN disperseEntry(@, TokenById(procs[p].party))
            ELSE [@ EXCEPT !.pc = "done", !.outcome = "threw"]]
    /\ UNCHANGED <<tokens, walls, actors, activeParty, partyCache, formation, nextId>>

(***************************************************************************)
(* PartyManager.emergencyScatter                                           *)
(***************************************************************************)
\* The outcomes of _shuffleArray(positions).slice(0, count): the first count
\* places of any order of the positions
ShuffledSlices(positions, count) ==
    LET k == Min(count, Len(positions))
    IN {[i \in 1..k |-> positions[f[i]]] :
           f \in {g \in [1..k -> 1..Len(positions)] :
                     \A i, j \in 1..k : i # j => g[i] # g[j]}}

\* emergencyScatter up to the batch creation inside _restoreMembers
ScatterCall(p) ==
    /\ procs[p].pc = "idle"
    /\ \E t \in PartyTokens :
          LET members == t.members
              centre == PartyCenter(t)
          IN \E found \in {findValidPositions(tokens, walls, centre.x, centre.y,
                                               Len(members) * 2, {})} :
             \E shuffled \in ShuffledSlices(found, Len(members)) :
                LET positions == [i \in 1..Len(shuffled) |->
                                     snapToTopLeft(shuffled[i].x, shuffled[i].y)]
                    tokensData == restoreMembersData(members, positions, actors)
                IN procs' = [procs EXCEPT ![p] =
                       IF Len(members) = 0
                       THEN [@ EXCEPT !.op = "scatter", !.pc = "done", !.party = t.id,
                                      !.outcome = "noMembers"]
                       ELSE [@ EXCEPT !.op = "scatter", !.party = t.id,
                                      !.members = members,
                                      !.partyPos = Pos(t.x, t.y),
                                      !.positions = positions,
                                      !.tokensData = tokensData,
                                      !.pc = IF Len(tokensData) = 0
                                             THEN "scatterDelete" ELSE "scatterCreate"]]
    /\ UNCHANGED <<tokens, walls, actors, activeParty, partyCache, formation, nextId>>

\* The batch creation of _restoreMembers resolves
ScatterCreate(p) ==
    /\ procs[p].pc = "scatterCreate"
    /\ tokens' = tokens \cup createEmbeddedDocuments(procs[p].tokensData, nextId)
    /\ nextId' = nextId + Len(procs[p].tokensData)
    /\ procs' = [procs EXCEPT
            ![p].restored = [k \in 1..Len(procs[p].tokensData) |-> nextId + k - 1],
            ![p].log = Append(@, "created"),
            ![p].pc = "scatterDelete"]
    /\ UNCHANGED <<walls, actors, activeParty, partyCache, formation>>

\* delete({groupPovuxaDispersing: true}), a rejection being swallowed
ScatterDelete(p) ==
    /\ procs[p].pc = "scatterDelete"
    /\ tokens' = {t \in tokens : t.id # procs[p].party}
    /\ procs' = [procs EXCEPT ![p].log = Append(@, "deleted"),
                              ![p].pc = "scatterClear"]
    /\ UNCHANGED <<walls, actors, activeParty, partyCache, formation, nextId>>

\* _clearPartyState resolves; the cache is dropped; the success notice
ScatterClear(p) ==
    /\ procs[p].pc = "scatterClear"
    /\ activeParty' = Null
    /\ partyCache' = Null
    /\ procs' = [procs EXCEPT ![p].pc = "done", ![p].outcome = "success",
                              ![p].notes = @ \cup {"DisperseSuccess"}]
    /\ UNCHANGED <<tokens, walls, actors, formation, nextId>>

Next ==
    \E p \in Procs :
        \/ DisperseCall(p)
        \/ DisperseUnsetFlag(p)
        \/ DisperseSetFlag(p)
        \/ DisperseCreate(p)
        \/ DisperseCreateFail(p)
        \/ DisperseDelete(p)
        \/ DisperseAnimate(p)
        \/ DisperseUpdate(p)
        \/ DisperseClear(p)
        \/ DisperseFinally(p)
        \/ UserDelete(p)
        \/ HookFire(p)
        \/ ScatterCall(p)
        \/ ScatterCreate(p)
        \/ ScatterDelete(p)
        \/ ScatterClear(p)

Spec == Init /\ [][Next]_vars

(***************************************************************************)
(* Properties of disperseParty and emergencyScatter                        *)
(***************************************************************************)
DisperseTasks == {p \in Procs : procs[p].op = "disperse"}

RosterIds(members) == {members[i].tokenId : i \in 1..Len(members)}

\* The tokens on the scene that a restore made from the snapshots of a roster
Replacements(members) == {t \in tokens : t.src \in RosterIds(members)}

\* C1: in a disperse run the replacements are created first, at the position
\* of the party token, the party token is deleted next, and the final
\* positions are applied last; a run that finds no actor only deletes
C1_CreateDeleteMove ==
    \A p \in DisperseTasks :
        /\ procs[p].log \in {<<>>, <<"created">>, <<"created", "deleted">>,
                             <<"created", "deleted", "moved">>, <<"deleted">>}
        /\ procs[p].outcome = "success" /\ Len(procs[p].tokensData) > 0
              => SubSeq(procs[p].log, 1, 2) = <<"created", "deleted">>
        /\ "moved" \notin Range(procs[p].log)
              => \A t \in tokens :
                    t.id \in Range(procs[p].restored)
                        => Pos(t.x, t.y) = procs[p].partyPos

\* C2: while and after a party with a non-empty roster is dispersed or
\* scattered, the party token or tokens restored from its roster are on
\* the scene
C2_SurrogateOrReplacements ==
    \A p \in Procs :
        (procs[p].op \in {"disperse", "scatter"} /\ Len(procs[p].members) > 0)
            => OnScene(procs[p].party) \/ Replacements(procs[p].members) # {}

\* C3: when two disperse calls interleave, each snapshot of the roster is
\* restored as at most one token
C3_RestoredAtMostOnce ==
    (\A p \in Procs : procs[p].op \in {"disperse", "none"})
        => \A p \in Procs : \A id \in RosterIds(procs[p].members) :
              Cardinality({t \in tokens : t.src = id}) <= 1

\* C4: a disperse call that has set the dispersing flag returns with the
\* flag unset on the party token, if that token is still on the scene
C4_FlagClearedOnReturn ==
    [][\A p \in Procs :
          (/\ procs[p].op = "disperse" /\ procs[p].setFlag
           /\ procs[p].pc # "done" /\ procs'[p].pc = "done")
              => \A t \in tokens' : t.id = procs[p].party => ~t.dispersing]_vars

C4_Witness ==
    \E p \in DisperseTasks :
        /\ procs[p].pc = "done" /\ procs[p].setFlag /\ procs[p].outcome = "error"
        /\ \E t \in tokens : t.id = procs[p].party /\ ~t.dispersing

\* C5: a disperse call that finds the dispersing flag set is not turned
\* away: unless an awaited call rejects or the rollback rule stops it, it
\* ends with the party token deleted and, where the actors exist, its roster
\* restored
C5_StuckFlagNeverBlocks ==
    \A p \in DisperseTasks :
        (/\ procs[p].sawFlag /\ procs[p].pc = "done"
         /\ procs[p].outcome \notin {"error", "threw", "rollback"})
            => /\ procs[p].outcome = "success"
               /\ ~OnScene(procs[p].party)
               /\ "deleted" \in Range(procs[p].log)
               /\ Len(procs[p].tokensData) > 0 => Head(procs[p].log) = "created"

C5_Witness ==
    \E p \in DisperseTasks :
        /\ procs[p].sawFlag /\ procs[p].pc = "done" /\ procs[p].outcome = "success"
        /\ Replacements(procs[p].members) # {}

\* C6: a disperse call that leaves more than half of the members without a
\* valid position aborts with a warning, before anything is created or deleted
C6_AbortWhenMostUnplaced ==
    \A p \in DisperseTasks :
        (procs[p].setFlag /\ 2 * procs[p].unplaced > Len(procs[p].members))
            => /\ procs[p].outcome = "rollback"
               /\ "CannotPlaceAll" \in procs[p].notes
               /\ procs[p].log = <<>>

\* C7: a disperse call whose candidate search returns fewer than
\* ceil(count / 2) positions for a roster of count members leaves the party
\* token and its roster as they were, and reports the failure
C7_AbortWhenFewCandidates ==
    \A p \in DisperseTasks :
        (/\ procs[p].setFlag /\ procs[p].candidates >= 0
         /\ 2 * procs[p].candidates < Len(procs[p].members))
            => /\ \E t \in tokens : /\ t.id = procs[p].party
                                    /\ t.members = procs[p].members
               /\ Replacements(procs[p].members) = {}
               /\ "CannotPlaceAll" \in procs[p].notes

\* The tokens that were on the scene before any restore
Bystanders == {t \in tokens : t.src = 0 /\ ~t.isPartyToken}

\* C8: after a disperse that was not rolled back, no restored token that
\* left the party position stands on a cell a bystander overlaps
C8_NoOverlapWithBystanders ==
    \A p \in DisperseTasks :
        (procs[p].pc = "done" /\ procs[p].outcome = "success")
            => \A t \in Replacements(procs[p].members) :
                  Pos(t.x, t.y) # procs[p].partyPos
                      => ~isPositionOccupied(Bystanders,
                                             t.x + (t.w * GridSize) \div 2,
                                             t.y + (t.h * GridSize) \div 2, {})

\* The centres of the cells of the scene
CellCentres ==
    {<<c * GridSize + GridSize \div 2, r * GridSize + GridSize \div 2>> :
        c \in 0..(SceneW - 1), r \in 0..(SceneH - 1)}

\* One unobstructed step between adjacent cells; a diagonal step also needs
\* one of its two orthogonal steps
StepOK(ws, a, b) ==
    \E i \in 1..Len(directions) :
        /\ b = <<a[1] + directions[i].dx * GridSize, a[2] + directions[i].dy * GridSize>>
        /\ isStepClear(ws, a[1], a[2], b[1], b[2])
        /\ directions[i].diagonal =>
              \/ isStepClear(ws, a[1], a[2], b[1], a[2])
              \/ isStepClear(ws, a[1], a[2], a[1], b[2])

\* The cells a sequence of such steps reaches from the cells of from
RECURSIVE StepClosure(_, _)
StepClosure(ws, from) ==
    Bind(from \cup {b \in CellCentres : \E a \in from : StepOK(ws, a, b)},
         LAMBDA grown : IF grown = from THEN from ELSE StepClosure(ws, grown))

\* For each wall layout, the cells reachable from the party cell
ReachableFromParty ==
    [ws \in InitWalls |->
        StepClosure(ws, {<<PartyCell.x + GridSize \div 2, PartyCell.y + GridSize \div 2>>})]

\* The cells of the scene that the footprint of a member standing at pos
\* covers a part of
FootprintCells(pos, member) ==
    {c \in CellCentres :
        /\ c[1] - GridSize \div 2 < pos.x + member.width * GridSize
        /\ c[1] + GridSize \div 2 > pos.x
        /\ c[2] - GridSize \div 2 < pos.y + member.height * GridSize
        /\ c[2] + GridSize \div 2 > pos.y}

\* C9: every final position disperseParty assigns is the party position, or
\* puts the member on cells that unobstructed single-cell steps reach from
\* the party cell: no member stands in a cell behind a wall
C9_PositionsReachable ==
    \A p \in DisperseTasks :
        procs[p].setFlag =>
            \A i \in 1..Len(procs[p].positions) :
                procs[p].positions[i] # Null =>
                    \/ procs[p].positions[i] = procs[p].partyPos
                    \/ FootprintCells(procs[p].positions[i], procs[p].members[i])
                           \subseteq ReachableFromParty[walls]

(***************************************************************************)
(* PartyManager.gatherParty                                                *)
(***************************************************************************)
\* _calculateCenter: the mean of the token centres, kept exact as the sums
\* over n tokens
calculateCenter(toks) ==
    [x |-> SeqSum([i \in 1..Len(toks) |-> toks[i].x + (toks[i].w * GridSize) \div 2]),
     y |-> SeqSum([i \in 1..Len(toks) |-> toks[i].y + (toks[i].h * GridSize) \div 2]),
     n |-> Len(toks)]

\* _getPrioritySlots: the spiral from (0, 0), kept to the 5x5 grid
RECURSIVE prioritySlotsLoop(_, _, _)
prioritySlotsLoop(count, i, st) ==
    IF i >= count THEN st.slots
    ELSE LET inGrid == -2 <= st.x /\ st.x <= 2 /\ -2 <= st.y /\ st.y <= 2
             turn == \/ st.x = st.y
                     \/ (st.x < 0 /\ st.x = -st.y)
                     \/ (st.x > 0 /\ st.x = 1 - st.y)
             dx == IF turn THEN -st.dy ELSE st.dx
             dy == IF turn THEN st.dx ELSE st.dy
         IN Bind([slots |-> IF inGrid /\ i > 0
                            THEN Append(st.slots, Pos(st.x, st.y)) ELSE st.slots,
                  x |-> st.x + dx, y |-> st.y + dy, dx |-> dx, dy |-> dy],
                 LAMBDA next : prioritySlotsLoop(count, i + 1, next))

getPrioritySlots(count) ==
    prioritySlotsLoop(count, 0,
        [slots |-> <<Pos(0, 0)>>, x |-> 0, y |-> 0, dx |-> 0, dy |-> -1])

\* A faulty variant of Clamp that leaves the value as it is
ClampNone(v, lo, hi) == v

Clamp(v, lo, hi) == IF v < lo THEN lo ELSE IF v > hi THEN hi ELSE v

\* Step 2: a member per token, with the offset the draft records for it
draftMembers(toks, initialPositions) ==
    [i \in 1..Len(toks) |->
        LET saved == SelectSeq(initialPositions, LAMBDA d : d.tokenId = toks[i].id)
        IN [tokenId |-> toks[i].id, actorId |-> toks[i].actorId,
            gridPos |-> IF Len(saved) > 0 THEN saved[1].gridPos ELSE Null,
            width |-> toks[i].w, height |-> toks[i].h]]

RosterSlots(members) ==
    {<<members[i].gridPos.x, members[i].gridPos.y>> :
        i \in {k \in 1..Len(members) : members[k].gridPos # Null}}

\* Step 2.1: a member without an offset takes the cell its token stands in,
\* seen from the centre and clamped to the 5x5 grid, if that cell is free
RECURSIVE projectMembers(_, _, _, _, _)
projectMembers(members, toks, center, i, occupiedGridSlots) ==
    IF i > Len(members) THEN members
    ELSE IF members[i].gridPos # Null
    THEN projectMembers(members, toks, center, i + 1, occupiedGridSlots)
    ELSE LET dxN == center.n * (toks[i].x + (members[i].width * GridSize) \div 2) - center.x
             dyN == center.n * (toks[i].y + (members[i].height * GridSize) \div 2) - center.y
             gx == Clamp(RoundDiv(dxN, center.n * GridSize), -2, 2)
             gy == Clamp(RoundDiv(dyN, center.n * GridSize), -2, 2)
         IN IF <<gx, gy>> \notin occupiedGridSlots
            THEN Bind([members EXCEPT ![i].gridPos = Pos(gx, gy)],
                      LAMBDA next : projectMembers(next, toks, center, i + 1,
                                        occupiedGridSlots \cup {<<gx, gy>>}))
            ELSE projectMembers(members, toks, center, i + 1, occupiedGridSlots)

\* Step 2.2: a member still without an offset takes the first free slot of
\* the spiral, or (0, 0)
RECURSIVE spiralMembers(_, _, _, _)
spiralMembers(members, prioritySlots, i, occupiedGridSlots) ==
    IF i > Len(members) THEN members
    ELSE IF members[i].gridPos # Null
    THEN spiralMembers(members, prioritySlots, i + 1, occupiedGridSlots)
    ELSE LET free == SelectSeq(prioritySlots,
                               LAMBDA q : <<q.x, q.y>> \notin occupiedGridSlots)
             slot == IF Len(free) > 0 THEN free[1] ELSE Pos(0, 0)
         IN Bind([members EXCEPT ![i].gridPos = slot],
                 LAMBDA next : spiralMembers(next, prioritySlots, i + 1,
                                   occupiedGridSlots \cup {<<slot.x, slot.y>>}))

\* Steps 2 to 2.2: the roster of the new party
gatherMembers(toks, initialPositions, center) ==
    Bind(draftMembers(toks, initialPositions),
         LAMBDA drafted :
             Bind(projectMembers(drafted, toks, center, 1, RosterSlots(drafted)),
                  LAMBDA projected :
                      spiralMembers(projected, getPrioritySlots(Len(projected) + 5),
                                    1, RosterSlots(projected))))

\* The token lists a caller can hand over: the tokens of ids, in any order
Selections(ids) ==
    UNION {{f \in [1..n -> ids] : \A i, j \in 1..n : i # j => f[i] # f[j]} :
              n \in 0..Min(MaxSelected, Cardinality(ids))}

\* options.initialPositions: none (<<>>, which acts as an empty draft does),
\* or a draft that records an offset for the first token of the list
Drafts(sel) ==
    {<<>>} \cup (IF Len(sel) = 0 THEN {}
                 ELSE {<<[tokenId |-> sel[1], gridPos |-> g]>> :
                          g \in {Pos(0, 0), Pos(1, 0)}})

\* gatherParty up to its first await, for the token list sel
gatherEntry(pr, sel, initialPositions) ==
    LET given == [i \in 1..Len(sel) |-> TokenById(sel[i])]
        validTokens == SelectSeq(given, LAMBDA t : ~t.isPartyToken)
        center == calculateCenter(validTokens)
        called == [pr EXCEPT !.op = "gather", !.selection = sel,
                             !.arg = initialPositions]
    IN IF Len(sel) = 0
       THEN [called EXCEPT !.pc = "done", !.outcome = "rejected",
                           !.notes = @ \cup {"NoTokensSelected"}]
       ELSE IF Len(validTokens) = 0
       THEN [called EXCEPT !.pc = "done", !.outcome = "rejected",
                           !.notes = @ \cup {"CannotGroupGroups"}]
       ELSE [called EXCEPT
               !.pc = "gatherAnimate",
               !.notes = IF Len(validTokens) < Len(sel)
                         THEN @ \cup {"GroupTokensExcluded"} ELSE @,
               !.center = center,
               !.members = gatherMembers(validTokens, initialPositions, center),
               !.tokensData = [i \in 1..Len(validTokens) |-> validTokens[i].id]]

\* The API, the hotkey or the scene control calls gatherParty(tokens, options)
GatherCall(p) ==
    /\ procs[p].pc = "idle"
    /\ \E sel \in Selections({t.id : t \in tokens}) :
       \E initialPositions \in Drafts(sel) :
          procs' = [procs EXCEPT ![p] = gatherEntry(@, sel, initialPositions)]
    /\ UNCHANGED <<tokens, walls, actors, activeParty, partyCache, formation, nextId>>

\* The panel's Gather button: _onGather turns away fewer than two tokens
PanelGather(p) ==
    /\ procs[p].pc = "idle"
    /\ \E sel \in Selections({t.id : t \in tokens}) :
       \E initialPositions \in Drafts(sel) :
          procs' = [procs EXCEPT ![p] =
              IF Len(sel) < 2
              THEN [@ EXCEPT !.op = "panelGather", !.selection = sel, !.pc = "done",
                             !.outcome = "rejected",
                             !.notes = @ \cup {"MinTwoTokens"}]
              ELSE gatherEntry(@, sel, initialPositions)]
    /\ UNCHANGED <<tokens, walls, actors, activeParty, partyCache, formation, nextId>>

\* _animateGather: the moves toward the centre resolve (to the pixel), the
\* move of a token that is gone being swallowed; the pause starts
GatherAnimate(p) ==
    /\ procs[p].pc = "gatherAnimate"
    /\ LET c == procs[p].center
           targetX == c.x \div c.n - GridSize \div 2
           targetY == c.y \div c.n - GridSize \div 2
       IN tokens' = {IF t.id \in Range(procs[p].tokensData)
                     THEN [t EXCEPT !.x = targetX, !.y = targetY] ELSE t : t \in tokens}
    /\ procs' = [procs EXCEPT ![p].pc = "gatherPause"]
    /\ UNCHANGED <<walls, actors, activeParty, partyCache, formation, nextId>>

\* A faulty variant of GatherPause that deletes the gathered tokens when the
\* pause ends, before the party token is created
GatherPauseDeletesFirst(p) ==
    /\ procs[p].pc = "gatherPause"
    /\ tokens' = {t \in tokens : t.id \notin Range(procs[p].tokensData)}
    /\ procs' = [procs EXCEPT ![p].pc = "gatherActor"]
    /\ UNCHANGED <<walls, actors, activeParty, partyCache, formation, nextId>>

\* The 150 ms pause ends; _createPartyToken asks for the party actor
GatherPause(p) ==
    /\ procs[p].pc = "gatherPause"
    /\ procs' = [procs EXCEPT ![p].pc = "gatherActor"]
    /\ UNCHANGED <<tokens, walls, actors, activeParty, partyCache, formation, nextId>>

\* _getOrCreatePartyActor resolves: the party actor (id 0) exists
GatherActor(p) ==
    /\ procs[p].pc = "gatherActor"
    /\ actors' = actors \cup {0}
    /\ procs' = [procs EXCEPT ![p].pc = "gatherCreate"]
    /\ UNCHANGED <<tokens, walls, activeParty, partyCache, formation, nextId>>

\* The party token is created on the cell that holds the centre
GatherCreate(p) ==
    /\ procs[p].pc = "gatherCreate"
    /\ LET c == procs[p].center
           snappedX == FloorDiv(c.x, c.n * GridSize) * GridSize + GridSize \div 2
           snappedY == FloorDiv(c.y, c.n * GridSize) * GridSize + GridSize \div 2
       IN tokens' = tokens \cup
              {[id |-> nextId, x |-> snappedX - GridSize \div 2,
                y |-> snappedY - GridSize \div 2, w |-> 1, h |-> 1, rotation |-> 0,
                actorId |-> 0, isPartyToken |-> TRUE, members |-> procs[p].members,
                dispersing |-> FALSE, src |-> 0]}
    /\ nextId' = nextId + 1
    /\ procs' = [procs EXCEPT ![p].result = nextId,
                              ![p].pc = IF \E id \in Range(procs[p].tokensData) : OnScene(id)
                                        THEN "gatherHide" ELSE "gatherSave"]
    /\ UNCHANGED <<walls, actors, activeParty, partyCache, formation>>

\* _hideOriginalTokens: the gathered tokens are deleted
GatherHide(p) ==
    /\ procs[p].pc = "gatherHide"
    /\ tokens' = {t \in tokens : t.id \notin Range(procs[p].tokensData)}
    /\ procs' = [procs EXCEPT ![p].pc = "gatherSave"]
    /\ UNCHANGED <<walls, actors, activeParty, partyCache, formation, nextId>>

\* _savePartyState resolves; the success notice; the cache is set
GatherSave(p) ==
    /\ procs[p].pc = "gatherSave"
    /\ LET state == [partyTokenId |-> procs[p].result,
                     members |-> [i \in 1..Len(procs[p].members) |->
                                     [tokenId |-> procs[p].members[i].tokenId,
                                      actorId |-> procs[p].members[i].actorId]]]
       IN /\ activeParty' = state
          /\ partyCache' = [partyTokenId |-> procs[p].result,
                            members |-> procs[p].members]
    /\ procs' = [procs EXCEPT ![p].pc = "done", ![p].outcome = "success",
                              ![p].notes = @ \cup {"GatherSuccess"}]
    /\ UNCHANGED <<tokens, walls, actors, formation, nextId>>

\* The cells the plain tokens of a gather scene stand on, in token order
PlainLayouts ==
    {<<Pos(0, 0)>>,
     <<Pos(0, 0), Pos(GridSize, 0)>>,
     <<Pos(0, 0), Pos(0, 0)>>,
     <<Pos(0, 0), Pos((SceneW - 1) * GridSize, 0)>>,
     <<Pos(0, 0), Pos(GridSize, 0), Pos(0, GridSize)>>,
     <<Pos(0, 0), Pos(GridSize, GridSize), Pos((SceneW - 1) * GridSize, 0)>>,
     <<Pos(0, 0), Pos(0, 0), Pos((SceneW - 1) * GridSize, 0)>>}

PlainToken(k, pos) ==
    [id |-> 10 + k, x |-> pos.x, y |-> pos.y, w |-> 1, h |-> 1, rotation |-> 0,
     actorId |-> 20 + k, isPartyToken |-> FALSE, members |-> <<>>,
     dispersing |-> FALSE, src |-> 0]

\* Plain tokens on the scene, with or without a party gathered earlier in
\* the far corner; one task
InitGather ==
    \E layout \in PlainLayouts, withParty \in BOOLEAN :
        LET party == [PartyToken(<<Member(9, Pos(0, 0))>>, 0, FALSE) EXCEPT
                         !.x = (SceneW - 1) * GridSize, !.y = (SceneH - 1) * GridSize]
        IN /\ tokens = {PlainToken(k, layout[k]) : k \in 1..Len(layout)}
                           \cup (IF withParty THEN {party} ELSE {})
           /\ walls = {}
           /\ actors = {20 + k : k \in 1..Len(layout)}
                           \cup (IF withParty THEN {0, 29} ELSE {})
           /\ activeParty = IF withParty
                            THEN [partyTokenId |-> 100,
                                  members |-> <<[tokenId |-> 19, actorId |-> 29]>>]
                            ELSE Null
           /\ partyCache = Null
           /\ formation = "line"
           /\ procs = [p \in Procs |->
                          IF p = "p1" THEN IdleProc ELSE [IdleProc EXCEPT !.pc = "off"]]
           /\ nextId = 1

NextGather ==
    \E p \in Procs :
        \/ GatherCall(p)
        \/ PanelGather(p)
        \/ GatherAnimate(p)
        \/ GatherPause(p)
        \/ GatherActor(p)
        \/ GatherCreate(p)
        \/ GatherHide(p)
        \/ GatherSave(p)

SpecGather == InitGather /\ [][NextGather]_vars

\* C10: a gather that is handed fewer than two tokens is turned away: it
\* returns no party token and writes nothing
C10_GatherNeedsTwo ==
    \A p \in Procs :
        (procs[p].op \in {"gather", "panelGather"} /\ Len(procs[p].selection) < 2)
            => /\ procs[p].pc = "done"
               /\ procs[p].outcome = "rejected"
               /\ procs[p].result = Null

\* C11: a gather that is handed a list holding a party token is turned away,
\* whatever else the list holds: it returns no party token and writes nothing
C11_GatherRejectsSurrogates ==
    \A p \in Procs :
        (/\ procs[p].op \in {"gather", "panelGather"}
         /\ \E t \in tokens : t.isPartyToken /\ t.id \in Range(procs[p].selection))
            => /\ procs[p].pc = "done"
               /\ procs[p].outcome = "rejected"
               /\ procs[p].result = Null

\* C14: when a disperse call has returned with success, every snapshot of
\* its roster stands on the scene as exactly one token, at the position the
\* run resolved for it, the party token is gone and the saved party state
\* is cleared
C14_SuccessRestoresAll ==
    \A p \in DisperseTasks :
        (procs[p].pc = "done" /\ procs[p].outcome = "success")
            => /\ \A i \in 1..Len(procs[p].members) :
                     /\ Cardinality({t \in tokens :
                                        t.src = procs[p].members[i].tokenId}) = 1
                     /\ (i <= Len(procs[p].positions) /\ procs[p].positions[i] # Null)
                           => \A t \in tokens :
                                 t.src = procs[p].members[i].tokenId
                                     => Pos(t.x, t.y) = procs[p].positions[i]
               /\ ~OnScene(procs[p].party)
               /\ activeParty = Null

(***************************************************************************)
(* The arrangement editor of the panel, the formation selector, and        *)
(* PartyManager.addMember and removeMember.  A handler reads the roster    *)
(* when it is called and writes the roster it computed when its setFlag    *)
(* resolves.                                                               *)
(***************************************************************************)
MaxRoster == 8     \* longest roster of a party the editor works on

\* _findPartyToken: the first party token on the canvas
findPartyToken ==
    IF PartyTokens = {} THEN Null
    ELSE CHOOSE t \in PartyTokens : \A u \in PartyTokens : t.id <= u.id

\* document.setFlag('members', members) on the party token
WithMembers(toks, id, members) ==
    {IF t.id = id THEN [t EXCEPT !.members = members] ELSE t : t \in toks}

\* members.findIndex(m => m.tokenId === tokenId), 0 for none
IndexOfToken(members, tokenId) ==
    IF \E i \in 1..Len(members) : members[i].tokenId = tokenId
    THEN CHOOSE i \in 1..Len(members) :
            /\ members[i].tokenId = tokenId
            /\ \A j \in 1..(i - 1) : members[j].tokenId # tokenId
    ELSE 0

\* The first member that records the offset (x, y), 0 for none
IndexAtCell(members, x, y) ==
    IF \E i \in 1..Len(members) : members[i].gridPos = Pos(x, y)
    THEN CHOOSE i \in 1..Len(members) :
            /\ members[i].gridPos = Pos(x, y)
            /\ \A j \in 1..(i - 1) : members[j].gridPos # Pos(x, y)
    ELSE 0

\* _onDropInGrid: the roster after the member tokenId is dropped on (x, y)
dropInGrid(members, tokenId, x, y) ==
    LET member == IndexOfToken(members, tokenId)
        targetMember == IndexAtCell(members, x, y)
    IN IF targetMember # 0 /\ targetMember # member
       THEN LET oldPos == members[member].gridPos
            IN [members EXCEPT ![member].gridPos = Pos(x, y),
                               ![targetMember].gridPos = oldPos]
       ELSE [members EXCEPT ![member].gridPos = Pos(x, y)]

\* game.settings 'customFormations': the ids of the saved patterns.  A
\* pattern is named after the call of saveFormation that stored it, and
\* that call's result keeps its positions
customFormations ==
    {q \in Procs : procs[q].op = "saveFormation" /\ procs[q].outcome = "saved"}

\* applyToMembers, custom pattern, step 2: each member in roster order takes
\* the slot bound to its token id, or else the first slot bound to its actor
\* id that is not yet in assignedPositions.  slotOf keeps which slot a
\* member was given
RECURSIVE matchPass(_, _, _)
matchPass(positions, i, st) ==
    IF i > Len(st.members) THEN st
    ELSE LET member == st.members[i]
             exact == {k \in 1..Len(positions) : positions[k].tokenId = member.tokenId}
             byActor == {k \in 1..Len(positions) :
                            /\ positions[k].actorId = member.actorId
                            /\ k \notin st.assignedPositions}
             found == IF exact # {} THEN exact ELSE byActor
         IN IF found = {}
            THEN matchPass(positions, i + 1, st)
            ELSE LET k == CHOOSE a \in found : \A b \in found : a <= b
                 IN matchPass(positions, i + 1,
                        [st EXCEPT
                            !.members[i].gridPos =
                                Pos(RoundDiv(positions[k].dx, GridSize),
                                    RoundDiv(positions[k].dy, GridSize)),
                            !.assignedPositions = @ \cup {k},
                            !.assigned = @ \cup {i},
                            !.slotOf[i] = k])

\* applyToMembers, custom pattern, step 3: each member not yet assigned takes
\* the next free slot, or else the free cell of the 5 x 5 grid nearest to
\* the centre, or (0,0)
RECURSIVE fillPass(_, _, _)
fillPass(positions, i, st) ==
    IF i > Len(st.members) THEN st
    ELSE IF i \in st.assigned THEN fillPass(positions, i + 1, st)
    ELSE IF Len(st.freeSlots) > 0
    THEN LET k == Head(st.freeSlots)
         IN fillPass(positions, i + 1,
                [st EXCEPT
                    !.members[i].gridPos =
                        Pos(RoundDiv(positions[k].dx, GridSize),
                            RoundDiv(positions[k].dy, GridSize)),
                    !.freeSlots = Tail(@),
                    !.slotOf[i] = k])
    ELSE LET spiral == {c \in (-2..2) \X (-2..2) :
                           \A j \in 1..Len(st.members) :
                               st.members[j].gridPos # Pos(c[1], c[2])}
             dist(c) == Abs(c[1]) + Abs(c[2])
             Before(c, e) ==
                 \/ dist(c) < dist(e)
                 \/ dist(c) = dist(e) /\ c[1] < e[1]
                 \/ dist(c) = dist(e) /\ c[1] = e[1] /\ c[2] <= e[2]
         IN fillPass(positions, i + 1,
                [st EXCEPT !.members[i].gridPos =
                    IF spiral = {} THEN Pos(0, 0)
                    ELSE LET validSpot == CHOOSE c \in spiral :
                                             \A e \in spiral : Before(c, e)
                         IN Pos(validSpot[1], validSpot[2])])

\* applyToMembers for a custom pattern: steps 2 and 3
bindSlots(members, positions) ==
    Bind(matchPass(positions, 1,
             [members |-> members, assignedPositions |-> {}, assigned |-> {},
              freeSlots |-> <<>>, slotOf |-> [i \in 1..Len(members) |-> 0]]),
         LAMBDA st :
             fillPass(positions, 1,
                 [st EXCEPT !.freeSlots =
                     SelectSeq([k \in 1..Len(positions) |-> k],
                               LAMBDA k : k \notin st.assignedPositions)]))

\* FormationPresets.applyToMembers: a custom pattern binds the members to
\* its slots; for a built-in pattern member i takes the cell of ideal
\* position i
applyToMembers(members, formationId) ==
    IF formationId \in customFormations
    THEN bindSlots(members, procs[formationId].result).members
    ELSE IF formationId \notin FORMATIONS THEN members
    ELSE LET idealPositions == getPositions(formationId, Len(members), 0)
         IN [i \in 1..Len(members) |->
                [members[i] EXCEPT !.gridPos =
                    Pos(RoundDiv(idealPositions[i].dx, GridSize),
                        RoundDiv(idealPositions[i].dy, GridSize))]]

\* The cells of the editor's grid a member is dropped on
DropCells == {Pos(0, 0), Pos(1, 0), Pos(0, -1)}

\* A member is dragged onto a cell of the grid of the active party
DropInGrid(p) ==
    /\ procs[p].pc = "idle"
    /\ \E party \in {findPartyToken} :
          IF party = Null
          THEN procs' = [procs EXCEPT ![p].op = "dropInGrid", ![p].pc = "done",
                                      ![p].outcome = "noParty"]
          ELSE \E i \in 1..Len(party.members), cell \in DropCells :
                  procs' = [procs EXCEPT
                      ![p].op = "dropInGrid", ![p].party = party.id,
                      ![p].arg = party.members[i].tokenId,
                      ![p].members = dropInGrid(party.members,
                                         party.members[i].tokenId, cell.x, cell.y),
                      ![p].pc = "saveMembers"]
    /\ UNCHANGED <<tokens, walls, actors, activeParty, partyCache, formation, nextId>>

\* _onRemoveFromGrid: the member's offset is deleted, if it records one
RemoveFromGrid(p) ==
    /\ procs[p].pc = "idle"
    /\ \E party \in {findPartyToken} :
          IF party = Null
          THEN procs' = [procs EXCEPT ![p].op = "removeFromGrid", ![p].pc = "done",
                                      ![p].outcome = "noParty"]
          ELSE \E i \in 1..Len(party.members) :
                  procs' = [procs EXCEPT ![p] =
                      IF party.members[i].gridPos = Null
                      THEN [@ EXCEPT !.op = "removeFromGrid", !.party = party.id,
                                     !.arg = party.members[i].tokenId,
                                     !.pc = "done", !.outcome = "unchanged"]
                      ELSE [@ EXCEPT !.op = "removeFromGrid", !.party = party.id,
                                     !.arg = party.members[i].tokenId,
                                     !.members = [party.members EXCEPT ![i].gridPos = Null],
                                     !.pc = "saveMembers"]]
    /\ UNCHANGED <<tokens, walls, actors, activeParty, partyCache, formation, nextId>>

\* _onFormationChange: a pattern is picked; the setting is being written
FormationChange(p) ==
    /\ procs[p].pc = "idle"
    /\ \E formationId \in FORMATIONS \cup customFormations :
          procs' = [procs EXCEPT ![p].op = "formationChange", ![p].arg = formationId,
                                 ![p].pc = "formationSetting"]
    /\ UNCHANGED <<tokens, walls, actors, activeParty, partyCache, formation, nextId>>

\* The setting is written; the pattern is applied to the roster of the
\* active party (without a party the handler works on the panel's draft)
FormationApply(p) ==
    /\ procs[p].pc = "formationSetting"
    /\ formation' = procs[p].arg
    /\ \E party \in {findPartyToken} :
          procs' = [procs EXCEPT ![p] =
              IF party = Null
              THEN [@ EXCEPT !.pc = "done", !.outcome = "noParty"]
              ELSE IF Len(party.members) = 0
              THEN [@ EXCEPT !.party = party.id, !.pc = "done", !.outcome = "unchanged"]
              ELSE [@ EXCEPT !.party = party.id,
                             !.members = applyToMembers(party.members, procs[p].arg),
                             !.pc = "saveMembers"]]
    /\ UNCHANGED <<tokens, walls, actors, activeParty, partyCache, nextId>>

\* setFlag('members', members) of a panel handler resolves, or rejects
\* when the party token is gone
SaveMembers(p) ==
    /\ procs[p].pc = "saveMembers"
    /\ IF OnScene(procs[p].party)
       THEN /\ tokens' = WithMembers(tokens, procs[p].party, procs[p].members)
            /\ procs' = [procs EXCEPT ![p] =
                   IF procs[p].op = "formationChange"
                   THEN [@ EXCEPT !.pc = "saveFormation"]
                   ELSE [@ EXCEPT !.pc = "done", !.outcome = "saved"]]
       ELSE /\ procs' = [procs EXCEPT ![p].pc = "done", ![p].outcome = "threw"]
            /\ UNCHANGED tokens
    /\ UNCHANGED <<walls, actors, activeParty, partyCache, formation, nextId>>

\* setFlag('formation', formationId) of _onFormationChange resolves or rejects
SaveFormation(p) ==
    /\ procs[p].pc = "saveFormation"
    /\ procs' = [procs EXCEPT ![p].pc = "done",
                              ![p].outcome = IF OnScene(procs[p].party)
                                             THEN "saved" ELSE "threw"]
    /\ UNCHANGED <<tokens, walls, actors, activeParty, partyCache, formation, nextId>>

\* addMember(token) up to its first await: the snapshot of the token, which
\* records no offset, is pushed onto the roster read from the party token
AddCall(p) ==
    /\ procs[p].pc = "idle"
    /\ \E token \in tokens, party \in {findPartyToken} :
          procs' = [procs EXCEPT ![p] =
              IF token.isPartyToken
              THEN [@ EXCEPT !.op = "addMember", !.arg = token.id, !.pc = "done",
                             !.outcome = "rejected",
                             !.notes = @ \cup {"CannotGroupGroups"}]
              ELSE IF party = Null
              THEN [@ EXCEPT !.op = "addMember", !.arg = token.id, !.pc = "done",
                             !.outcome = "noParty",
                             !.notes = @ \cup {"NoPartyToken"}]
              ELSE [@ EXCEPT !.op = "addMember", !.arg = token.id,
                             !.party = party.id,
                             !.members = Append(party.members,
                                 [tokenId |-> token.id, actorId |-> token.actorId,
                                  gridPos |-> Null, width |-> token.w,
                                  height |-> token.h]),
                             !.pc = "addSave"]]
    /\ UNCHANGED <<tokens, walls, actors, activeParty, partyCache, formation, nextId>>

\* setFlag('members', members) of addMember resolves or rejects
AddSave(p) ==
    /\ procs[p].pc = "addSave"
    /\ IF OnScene(procs[p].party)
       THEN /\ tokens' = WithMembers(tokens, procs[p].party, procs[p].members)
            /\ procs' = [procs EXCEPT ![p].pc = "addVision"]
       ELSE /\ procs' = [procs EXCEPT ![p].pc = "done", ![p].outcome = "threw"]
            /\ UNCHANGED tokens
    /\ UNCHANGED <<walls, actors, activeParty, partyCache, formation, nextId>>

\* _updatePartyTokenVision of addMember resolves or rejects
AddVision(p) ==
    /\ procs[p].pc = "addVision"
    /\ procs' = [procs EXCEPT ![p] =
           IF OnScene(procs[p].party) THEN [@ EXCEPT !.pc = "addDelete"]
           ELSE [@ EXCEPT !.pc = "done", !.outcome = "threw"]]
    /\ UNCHANGED <<tokens, walls, actors, activeParty, partyCache, formation, nextId>>

\* token.document.delete() of addMember resolves (it rejects when the token
\* is gone); the notice; the cache is set
AddDelete(p) ==
    /\ procs[p].pc = "addDelete"
    /\ IF OnScene(procs[p].arg)
       THEN /\ tokens' = {t \in tokens : t.id # procs[p].arg}
            /\ partyCache' = [partyTokenId |-> procs[p].party,
                              members |-> procs[p].members]
            /\ procs' = [procs EXCEPT ![p].pc = "done", ![p].outcome = "success",
                                      ![p].notes = @ \cup {"TokenAdded"}]
       ELSE /\ procs' = [procs EXCEPT ![p].pc = "done", ![p].outcome = "threw"]
            /\ UNCHANGED <<tokens, partyCache>>
    /\ UNCHANGED <<walls, actors, activeParty, formation, nextId>>

\* The ids removeMember is called with: those of the roster, and one that
\* no roster holds
RemovableIds(members) == RosterIds(members) \cup {0}

\* removeMember(tokenId) up to its first await: the snapshot is spliced out
\* of the roster read from the party token, and its token is asked for at
\* the party token's position
RemoveCall(p) ==
    /\ procs[p].pc = "idle"
    /\ \E party \in {findPartyToken} :
          IF party = Null
          THEN procs' = [procs EXCEPT ![p].op = "removeMember",
                                      ![p].via = "removeMember", ![p].pc = "done",
                                      ![p].outcome = "noParty"]
          ELSE \E tokenId \in RemovableIds(party.members) :
               \E memberIndex \in {IndexOfToken(party.members, tokenId)} :
                  procs' = [procs EXCEPT ![p] =
                      IF memberIndex = 0
                      THEN [@ EXCEPT !.op = "removeMember", !.via = "removeMember",
                                     !.arg = tokenId, !.party = party.id,
                                     !.pc = "done", !.outcome = "notMember"]
                      ELSE [@ EXCEPT
                              !.op = "removeMember", !.via = "removeMember",
                              !.arg = tokenId, !.party = party.id,
                              !.partyPos = Pos(party.x, party.y),
                              !.members = [k \in 1..(Len(party.members) - 1) |->
                                              IF k < memberIndex THEN party.members[k]
                                              ELSE party.members[k + 1]],
                              !.tokensData = restoreMembersData(
                                                 <<party.members[memberIndex]>>,
                                                 <<Pos(party.x, party.y)>>, actors),
                              !.pc = "removeCreate"]]
    /\ UNCHANGED <<tokens, walls, actors, activeParty, partyCache, formation, nextId>>

\* _createTokenFromMember resolves: the removed member stands on the party
\* token's position, if its actor exists
RemoveCreate(p) ==
    /\ procs[p].pc = "removeCreate"
    /\ tokens' = tokens \cup createEmbeddedDocuments(procs[p].tokensData, nextId)
    /\ nextId' = nextId + Len(procs[p].tokensData)
    /\ procs' = [procs EXCEPT ![p] =
           IF Len(procs[p].members) < 2
           THEN [@ EXCEPT !.notes = @ \cup {"TooFewMembers"}, !.pc = "removeSaveFew"]
           ELSE [@ EXCEPT !.pc = "removeSave"]]
    /\ UNCHANGED <<walls, actors, activeParty, partyCache, formation>>

\* Fewer than two members are left: setFlag('members', members) resolves
\* and disperseParty(partyToken) runs up to its first await
RemoveSaveFew(p) ==
    /\ procs[p].pc = "removeSaveFew"
    /\ IF OnScene(procs[p].party)
       THEN \E toks \in {WithMembers(tokens, procs[p].party, procs[p].members)} :
            \E party \in {t \in toks : t.id = procs[p].party} :
               /\ tokens' = toks
               /\ procs' = [procs EXCEPT ![p] = disperseEntry(@, party)]
       ELSE /\ procs' = [procs EXCEPT ![p].pc = "done", ![p].outcome = "threw"]
            /\ UNCHANGED tokens
    /\ UNCHANGED <<walls, actors, activeParty, partyCache, formation, nextId>>

\* Two or more members are left: setFlag('members', members) resolves
RemoveSave(p) ==
    /\ procs[p].pc = "removeSave"
    /\ IF OnScene(procs[p].party)
       THEN /\ tokens' = WithMembers(tokens, procs[p].party, procs[p].members)
            /\ procs' = [procs EXCEPT ![p].pc = "removeVision"]
       ELSE /\ procs' = [procs EXCEPT ![p].pc = "done", ![p].outcome = "threw"]
            /\ UNCHANGED tokens
    /\ UNCHANGED <<walls, actors, activeParty, partyCache, formation, nextId>>

\* _updatePartyTokenVision of removeMember resolves or rejects; the notice;
\* the cache is set
RemoveVision(p) ==
    /\ procs[p].pc = "removeVision"
    /\ IF OnScene(procs[p].party)
       THEN /\ partyCache' = [partyTokenId |-> procs[p].party,
                              members |-> procs[p].members]
            /\ procs' = [procs EXCEPT ![p].pc = "done", ![p].outcome = "success",
                                      ![p].notes = @ \cup {"TokenRemoved"}]
       ELSE /\ procs' = [procs EXCEPT ![p].pc = "done", ![p].outcome = "threw"]
            /\ UNCHANGED partyCache
    /\ UNCHANGED <<tokens, walls, actors, activeParty, formation, nextId>>

\* The roster a gather without a draft leaves for n tokens standing on the
\* party cell
GatheredRoster(n) ==
    LET toks == [k \in 1..n |-> PlainToken(k, PartyCell)]
    IN gatherMembers(toks, <<>>, calculateCenter(toks))

\* A party of 1..MaxRoster gathered tokens and one plain token in the
\* corner of the scene; one task, or two tasks on a party of up to
\* MaxMembers
InitRoster ==
    \E n \in 1..MaxRoster, tasks \in {{"p1"}, Racers} :
        /\ tasks = Racers => n <= MaxMembers
        /\ tokens = {PartyToken(GatheredRoster(n), 0, FALSE), Occupant(1, 0, 0)}
        /\ walls = {}
        /\ actors = {0, 31} \cup RosterActors(GatheredRoster(n))
        /\ activeParty = [partyTokenId |-> 100,
                          members |-> [i \in 1..n |->
                                          [tokenId |-> 10 + i, actorId |-> 20 + i]]]
        /\ partyCache = Null
        /\ formation = "line"
        /\ procs = [p \in Procs |->
                       IF p \in tasks THEN IdleProc ELSE [IdleProc EXCEPT !.pc = "off"]]
        /\ nextId = 1

NextRoster ==
    \E p \in Procs :
        \/ DropInGrid(p)
        \/ RemoveFromGrid(p)
        \/ FormationChange(p)
        \/ FormationApply(p)
        \/ SaveMembers(p)
        \/ SaveFormation(p)
        \/ AddCall(p)
        \/ AddSave(p)
        \/ AddVision(p)
        \/ AddDelete(p)
        \/ RemoveCall(p)
        \/ RemoveCreate(p)
        \/ RemoveSaveFew(p)
        \/ RemoveSave(p)
        \/ RemoveVision(p)
        \/ DisperseUnsetFlag(p)
        \/ DisperseSetFlag(p)
        \/ DisperseCreate(p)
        \/ DisperseCreateFail(p)
        \/ DisperseDelete(p)
        \/ DisperseAnimate(p)
        \/ DisperseUpdate(p)
        \/ DisperseClear(p)
        \/ DisperseFinally(p)

SpecRoster == InitRoster /\ [][NextRoster]_vars

\* C12: whenever no handler is between its call and its return, no two
\* snapshots of a party token's roster record the same offset
C12_OffsetsUnique ==
    (\A p \in Procs : procs[p].pc \in {"idle", "done", "off"})
        => \A t \in PartyTokens : \A i, j \in 1..Len(t.members) :
              (i # j /\ t.members[i].gridPos # Null)
                  => t.members[i].gridPos # t.members[j].gridPos

\* C13: the roster of a party token holds at most one snapshot per token id,
\* however the calls interleave
C13_OneSnapshotPerToken ==
    \A t \in PartyTokens : \A i, j \in 1..Len(t.members) :
        i # j => t.members[i].tokenId # t.members[j].tokenId

\* C15: once a removeMember call that took a snapshot out of the roster has
\* returned, all its awaits having resolved, the party token it worked on is
\* not on the scene with a roster of fewer than two snapshots
C15_NoSmallPartyAfterRemove ==
    \A p \in Procs :
        (/\ procs[p].via = "removeMember"
         /\ procs[p].pc = "done"
         /\ procs[p].outcome \in {"success", "noMembers"})
            => \A t \in PartyTokens :
                  t.id = procs[p].party => Len(t.members) >= 2

\* C16: when a removeMember call that left one snapshot in the roster has
\* returned from its disperse with success, the token restored from that
\* snapshot stands at the position the party token had
C16_LastMemberAtPartyPosition ==
    \A p \in Procs :
        (/\ procs[p].via = "removeMember"
         /\ procs[p].op = "disperse"
         /\ Len(procs[p].members) = 1
         /\ procs[p].pc = "done"
         /\ procs[p].outcome = "success")
            => \A t \in tokens :
                  t.src = procs[p].members[1].tokenId
                      => Pos(t.x, t.y) = procs[p].partyPos

\* C20: the circle pattern applied to a roster of 5 puts the first member on
\* the anchor cell and the next four on the cells one step north, east,
\* south and west of it, in that order (y grows downward, so north is -1)
C20_RingOfFive ==
    \A p \in Procs :
        (/\ procs[p].op = "formationChange"
         /\ procs[p].arg = "circle"
         /\ procs[p].pc \in {"saveMembers", "saveFormation", "done"}
         /\ Len(procs[p].members) = 5)
            => /\ [i \in 1..5 |-> procs[p].members[i].gridPos]
                     = <<Pos(0, 0), Pos(0, -1), Pos(1, 0), Pos(0, 1), Pos(-1, 0)>>
               /\ [i \in 1..5 |-> Pos(circlePositions(5, 0)[i].dx,
                                      circlePositions(5, 0)[i].dy)]
                     = <<Pos(0, 0), Pos(0, 0 - GridSize), Pos(GridSize, 0),
                         Pos(0, GridSize), Pos(0 - GridSize, 0)>>

\* A formation change to the circle has been saved on a party of 5, whose
\* roster now records the ring
C20_Witness ==
    \E p \in Procs : \E t \in PartyTokens :
        /\ procs[p].op = "formationChange"
        /\ procs[p].arg = "circle"
        /\ procs[p].pc = "done"
        /\ procs[p].outcome = "saved"
        /\ Len(t.members) = 5
        /\ t.members = procs[p].members
        /\ t.members[2].gridPos = Pos(0, -1)
        /\ t.members[5].gridPos = Pos(-1, 0)

\* Every snapshot of the roster records an offset within -2..2, and no two
\* record the same one
OffsetsInGridAndDistinct(members) ==
    /\ \A i \in 1..Len(members) :
          /\ members[i].gridPos # Null
          /\ members[i].gridPos.x \in -2..2
          /\ members[i].gridPos.y \in -2..2
    /\ \A i, j \in 1..Len(members) :
          i # j => members[i].gridPos # members[j].gridPos

\* The cell the member's offset names is the party cell, or a cell of the
\* scene that unobstructed steps reach from the party cell
SlotReachable(member, party) ==
    \/ member.gridPos = Pos(0, 0)
    \/ <<GridSlot(member, party).x + (GridSize * member.width) \div 2,
         GridSlot(member, party).y + (GridSize * member.height) \div 2>>
           \in ReachableFromParty[walls]

TaskOrder == <<"p1", "p2", "p3", "p4">>

\* It is the turn of task p: the tasks before it have returned and the
\* tasks after it have not been called
Turn(p) ==
    \E k \in 1..Len(TaskOrder) :
        /\ TaskOrder[k] = p
        /\ \A j \in 1..(k - 1) : procs[TaskOrder[j]].pc = "done"
        /\ \A j \in k..Len(TaskOrder) : procs[TaskOrder[j]].pc = "idle"

\* The ids of s in ascending order
RECURSIVE Ascending(_)
Ascending(s) ==
    IF s = {} THEN <<>>
    ELSE LET least == CHOOSE a \in s : \A b \in s : a <= b
         IN <<least>> \o Ascending(s \ {least})

\* gatherParty(canvas.tokens.controlled) with every plain token selected
CycleGather(p) ==
    /\ Turn(p)
    /\ PartyTokens = {}
    /\ procs' = [procs EXCEPT ![p] =
           gatherEntry(@, Ascending({t.id : t \in tokens}), <<>>)]
    /\ UNCHANGED <<tokens, walls, actors, activeParty, partyCache, formation, nextId>>

\* disperseParty(partyToken) on the party token of the scene
CycleDisperse(p) ==
    /\ Turn(p)
    /\ \E t \in PartyTokens : procs' = [procs EXCEPT ![p] = disperseEntry(@, t)]
    /\ UNCHANGED <<tokens, walls, actors, activeParty, partyCache, formation, nextId>>

\* The cells the plain tokens stand on before the first gather
CycleLayouts ==
    {[k \in 1..n |-> Pos((k - 1) * GridSize, r * GridSize)] :
        n \in 2..SceneW, r \in 0..(SceneH - 1)}
    \cup {[k \in 1..n |-> PartyCell] : n \in 2..SceneW}
    \cup {[k \in 1..n |-> Pos(c * GridSize, (k - 1) * GridSize)] :
             n \in 2..SceneH, c \in 0..(SceneW - 1)}
    \cup {<<Pos(GridSize, 0), Pos(2 * GridSize, 0), Pos(3 * GridSize, 0),
            Pos(GridSize, GridSize), Pos(2 * GridSize, GridSize)>>,
          <<Pos(0, 0), Pos(GridSize, 0), Pos(0, GridSize)>>}

\* Plain tokens on an open scene, the default pattern, four tasks
InitCycle ==
    \E layout \in CycleLayouts :
        /\ tokens = {PlainToken(k, layout[k]) : k \in 1..Len(layout)}
        /\ walls = {}
        /\ actors = {20 + k : k \in 1..Len(layout)}
        /\ activeParty = Null
        /\ partyCache = Null
        /\ formation = "line"
        /\ procs = [p \in Procs |-> IdleProc]
        /\ nextId = 1

NextCycle ==
    \E p \in Procs :
        \/ CycleGather(p)
        \/ GatherAnimate(p)
        \/ GatherPause(p)
        \/ GatherActor(p)
        \/ GatherCreate(p)
        \/ GatherHide(p)
        \/ GatherSave(p)
        \/ CycleDisperse(p)
        \/ DisperseSetFlag(p)
        \/ DisperseCreate(p)
        \/ DisperseCreateFail(p)
        \/ DisperseDelete(p)
        \/ DisperseAnimate(p)
        \/ DisperseUpdate(p)
        \/ DisperseClear(p)
        \/ DisperseFinally(p)

SpecCycle == InitCycle /\ [][NextCycle]_vars

\* C17: when five tokens were gathered without a draft and the party is
\* dispersed with the line pattern, facing 0, the members stand in one row
\* when the call has returned and before another call is made: member i of
\* the roster i - 3 cells east of the party token's cell
C17_RowOfFive ==
    \A p \in DisperseTasks :
        (/\ \A q \in Procs : procs[q].pc \in {"idle", "done"}
         /\ procs[p].pc = "done"
         /\ procs[p].outcome = "success"
         /\ formation = "line"
         /\ Len(procs[p].members) = 5)
            => \A i \in 1..5 : \A t \in tokens :
                  t.src = procs[p].members[i].tokenId
                      => Pos(t.x, t.y) = Pos(procs[p].partyPos.x + (i - 3) * GridSize,
                                             procs[p].partyPos.y)

\* Task p has returned from a call of op with success
Succeeded(p, op) ==
    procs[p].op = op /\ procs[p].pc = "done" /\ procs[p].outcome = "success"

\* C18: on an open scene, facing 0, after gather, disperse and gather again,
\* every agent records the offset it recorded after the first gather; and
\* after the second disperse the agents stand relative to one another as
\* they did after the first
C18_GatherDisperseIdempotent ==
    /\ (Succeeded("p1", "gather") /\ Succeeded("p2", "disperse")
            /\ Succeeded("p3", "gather"))
          => \A i \in 1..Len(procs["p1"].members) :
             \A j \in 1..Len(procs["p3"].members) :
                procs["p1"].members[i].actorId = procs["p3"].members[j].actorId
                    => procs["p1"].members[i].gridPos = procs["p3"].members[j].gridPos
    /\ (Succeeded("p1", "gather") /\ Succeeded("p2", "disperse")
            /\ Succeeded("p3", "gather") /\ Succeeded("p4", "disperse"))
          => \A i, k \in 1..Len(procs["p2"].members) :
             \A j, l \in 1..Len(procs["p4"].members) :
                (/\ procs["p2"].members[i].actorId = procs["p4"].members[j].actorId
                 /\ procs["p2"].members[k].actorId = procs["p4"].members[l].actorId)
                    => /\ procs["p4"].positions[j].x - procs["p4"].positions[l].x
                            = procs["p2"].positions[i].x - procs["p2"].positions[k].x
                       /\ procs["p4"].positions[j].y - procs["p4"].positions[l].y
                            = procs["p2"].positions[i].y - procs["p2"].positions[k].y

(***************************************************************************)
(* Properties of the built-in patterns                                     *)
(***************************************************************************)
\* C21: the pattern a formation change generated for a roster of count
\* members has exactly count offsets, each a whole number of cells in x and
\* in y, and no two of them the same
C21_CountDistinctIntegerOffsets ==
    \A p \in {q \in Procs : /\ procs[q].op = "formationChange"
                            /\ procs[q].pc \in {"saveMembers", "saveFormation"}} :
        LET count == Len(procs[p].members)
            offsets == getPositions(procs[p].arg, count, 0)
        IN /\ Len(offsets) = count
           /\ \A i \in 1..Len(offsets) :
                 /\ offsets[i].dx % GridSize = 0
                 /\ offsets[i].dy % GridSize = 0
           /\ \A i, j \in 1..Len(offsets) :
                 i # j => <<offsets[i].dx, offsets[i].dy>>
                              # <<offsets[j].dx, offsets[j].dy>>

(***************************************************************************)
(* TokenPlacer called on its own: findValidPositions and buildReachableSet *)
(* from any cell of a scene with walls and occupants.  The occupants stand *)
(* on cells, or a few pixels off the grid, where a drag with snapping off  *)
(* leaves a token.                                                         *)
(***************************************************************************)
MaxCount == 4      \* most positions asked for, besides one for every cell

InitSearch ==
    LET east == PartyCell.x + GridSize
        SearchWalls ==
            InitWalls \cup {{VWall(PartyCell.x, k * GridSize) : k \in 0..(SceneH - 2)}}
        SearchOccupants ==
            { {},
              {Occupant(1, east, PartyCell.y)},
              {Occupant(1, east, PartyCell.y), Occupant(2, PartyCell.x, 0)},
              {Occupant(1, east - 3, PartyCell.y)},
              {Occupant(1, east, PartyCell.y - 5)} }
    IN /\ tokens \in SearchOccupants
       /\ walls \in SearchWalls
       /\ actors = {}
       /\ activeParty = Null
       /\ partyCache = Null
       /\ formation = "line"
       /\ procs = [p \in Procs |->
                      IF p = "p1" THEN IdleProc ELSE [IdleProc EXCEPT !.pc = "off"]]
       /\ nextId = 1

\* TokenPlacer.findValidPositions(centerX, centerY, count, { excludeTokens })
SearchCall(p) ==
    /\ procs[p].pc = "idle"
    /\ \E c \in CellCentres, count \in (1..MaxCount) \cup {SceneW * SceneH},
          excludeTokens \in {{}, {201}} :
          procs' = [procs EXCEPT
              ![p].op = "findValidPositions",
              ![p].arg = [centerX |-> c[1], centerY |-> c[2], count |-> count,
                          excludeTokens |-> excludeTokens],
              ![p].result = findValidPositions(tokens, walls, c[1], c[2], count,
                                               excludeTokens),
              ![p].pc = "done"]
    /\ UNCHANGED <<tokens, walls, actors, activeParty, partyCache, formation, nextId>>

\* TokenPlacer.buildReachableSet(centerX, centerY, 200)
ReachCall(p) ==
    /\ procs[p].pc = "idle"
    /\ \E c \in CellCentres :
          procs' = [procs EXCEPT
              ![p].op = "buildReachableSet",
              ![p].arg = [centerX |-> c[1], centerY |-> c[2], maxCells |-> MaxCells],
              ![p].result = buildReachableSet(walls, c[1], c[2], MaxCells),
              ![p].pc = "done"]
    /\ UNCHANGED <<tokens, walls, actors, activeParty, partyCache, formation, nextId>>

\* FormationPresets.apply(formationId, availablePositions, direction) on the
\* candidates of a search
ApplyCall(p) ==
    /\ procs[p].pc = "idle"
    /\ \E c \in CellCentres, count \in (2..MaxCount) \cup {MaxRoster} :
          \E availablePositions \in {findValidPositions(tokens, walls, c[1], c[2],
                                                       count, {})} :
          \E formationId \in FORMATIONS, direction \in {0, 90} :
             procs' = [procs EXCEPT
                 ![p].op = "apply",
                 ![p].arg = [formationId |-> formationId,
                             availablePositions |-> availablePositions,
                             direction |-> direction],
                 ![p].result = apply(formationId, availablePositions, direction),
                 ![p].pc = "done"]
    /\ UNCHANGED <<tokens, walls, actors, activeParty, partyCache, formation, nextId>>

NextSearch ==
    \E p \in Procs :
        \/ SearchCall(p)
        \/ ReachCall(p)
        \/ ApplyCall(p)

SpecSearch == InitSearch /\ [][NextSearch]_vars

\* C22 as stated: no position findValidPositions returns names a cell that
\* overlaps the footprint of a token outside the exclusion set
C22_NoCandidateOnOccupant ==
    \A p \in Procs :
        (procs[p].op = "findValidPositions" /\ procs[p].pc = "done")
            => \A i \in 1..Len(procs[p].result) : \A t \in tokens :
                  t.id \notin procs[p].arg.excludeTokens
                      => ~(/\ procs[p].result[i].x - GridSize \div 2 < t.x + t.w * GridSize
                           /\ procs[p].result[i].x + GridSize \div 2 > t.x
                           /\ procs[p].result[i].y - GridSize \div 2 < t.y + t.h * GridSize
                           /\ procs[p].result[i].y + GridSize \div 2 > t.y)

\* C22 amended: no position findValidPositions returns names a cell whose
\* inside, the cell without a margin of 5 pixels along each edge, overlaps
\* the footprint of a token outside the exclusion set
C22_NoCandidateOnOccupantInside ==
    \A p \in Procs :
        (procs[p].op = "findValidPositions" /\ procs[p].pc = "done")
            => \A i \in 1..Len(procs[p].result) : \A t \in tokens :
                  t.id \notin procs[p].arg.excludeTokens
                      => LET left == procs[p].result[i].x - GridSize \div 2 + 5
                             right == procs[p].result[i].x + GridSize \div 2 - 5
                             top == procs[p].result[i].y - GridSize \div 2 + 5
                             bottom == procs[p].result[i].y + GridSize \div 2 - 5
                         IN \/ t.x + t.w * GridSize <= left
                            \/ t.x >= right
                            \/ t.y + t.h * GridSize <= top
                            \/ t.y >= bottom

\* A search for one position per cell of an open scene with one occupant,
\* nothing excluded, has returned every cell but the occupant's
C22_Witness ==
    \E p \in Procs :
        /\ procs[p].op = "findValidPositions" /\ procs[p].pc = "done"
        /\ walls = {}
        /\ tokens = {Occupant(1, PartyCell.x + GridSize, PartyCell.y)}
        /\ procs[p].arg.excludeTokens = {}
        /\ procs[p].arg.count = SceneW * SceneH
        /\ Len(procs[p].result) = SceneW * SceneH - 1

\* The least number of unobstructed single-cell steps that lead from a cell
\* of reached to the cell target, counted from k (-1: no steps lead there)
RECURSIVE StepsTo(_, _, _, _)
StepsTo(ws, reached, target, k) ==
    IF target \in reached THEN k
    ELSE Bind(reached \cup {b \in CellCentres : \E a \in reached : StepOK(ws, a, b)},
              LAMBDA grown : IF grown = reached THEN -1
                             ELSE StepsTo(ws, grown, target, k + 1))

\* C23: findValidPositions returns at most count positions, no two of them
\* for the same cell, in ascending order of distance, and the distance of a
\* position is the least number of unobstructed single-cell steps from the
\* origin to its cell
C23_SortedShortestDistinct ==
    \A p \in Procs :
        (procs[p].op = "findValidPositions" /\ procs[p].pc = "done")
            => LET found == procs[p].result
                   origin == <<procs[p].arg.centerX, procs[p].arg.centerY>>
               IN /\ Len(found) <= procs[p].arg.count
                  /\ \A i, j \in 1..Len(found) :
                        /\ i # j => <<found[i].x, found[i].y>> # <<found[j].x, found[j].y>>
                        /\ i < j => found[i].distance <= found[j].distance
                  /\ \A i \in 1..Len(found) :
                        found[i].distance
                            = StepsTo(walls, {origin}, <<found[i].x, found[i].y>>, 0)

\* A search among walls has returned as many positions as it was asked for,
\* more than one, and one of them lies more steps away than it would on an
\* open scene
C23_Witness ==
    \E p \in Procs :
        /\ procs[p].op = "findValidPositions" /\ procs[p].pc = "done"
        /\ walls # {}
        /\ procs[p].arg.count > 1
        /\ Len(procs[p].result) = procs[p].arg.count
        /\ \E i \in 1..Len(procs[p].result) :
              procs[p].result[i].distance * GridSize
                  > Max(Abs(procs[p].result[i].x - procs[p].arg.centerX),
                        Abs(procs[p].result[i].y - procs[p].arg.centerY))

\* C24: on a scene without walls, buildReachableSet with the budget of 200
\* from a cell whose 8 neighbours are inside the scene returns a set that
\* holds the cell and its 8 neighbours
C24_OriginAndEightNeighbours ==
    \A p \in Procs :
        (/\ procs[p].op = "buildReachableSet" /\ procs[p].pc = "done"
         /\ procs[p].arg.maxCells = 200
         /\ walls = {}
         /\ \A dx, dy \in {-1, 0, 1} :
               isWithinSceneBounds(procs[p].arg.centerX + dx * GridSize,
                                   procs[p].arg.centerY + dy * GridSize))
            => \A dx, dy \in {-1, 0, 1} :
                  <<procs[p].arg.centerX + dx * GridSize,
                    procs[p].arg.centerY + dy * GridSize>> \in procs[p].result

\* buildReachableSet has returned for the cell in the middle of an open
\* scene, with more cells than the nine
C24_Witness ==
    \E p \in Procs :
        /\ procs[p].op = "buildReachableSet" /\ procs[p].pc = "done"
        /\ walls = {}
        /\ procs[p].arg.centerX = PartyCell.x + GridSize \div 2
        /\ procs[p].arg.centerY = PartyCell.y + GridSize \div 2
        /\ PartyCell.x >= GridSize /\ PartyCell.y >= GridSize
        /\ PartyCell.x + 2 * GridSize <= SceneW * GridSize
        /\ PartyCell.y + 2 * GridSize <= SceneH * GridSize
        /\ Cardinality(procs[p].result) > 9

(***************************************************************************)
(* Two parties on one scene: the first was gathered, then the second,      *)
(* whose state the scene flag holds.  One call is made, on either party.   *)
(***************************************************************************)
\* The party token of the second gather, two cells west of the first
SecondParty ==
    [PartyToken([i \in 1..2 |-> Member(5 + i, Pos(i - 1, 0))], 0, FALSE)
        EXCEPT !.id = 101, !.x = PartyCell.x - 2 * GridSize]

InitTwo ==
    \E n \in 1..(MaxMembers + 1), cached, busy \in BOOLEAN, tasks \in {{"p1"}} :
        /\ tokens = {PartyToken(GatheredRoster(n), 0, busy), SecondParty,
                     Occupant(1, 0, 0)}
        /\ walls = {}
        /\ actors = {0, 31} \cup RosterActors(GatheredRoster(n))
                        \cup RosterActors(SecondParty.members)
        /\ activeParty = [partyTokenId |-> SecondParty.id,
                          members |-> [i \in 1..Len(SecondParty.members) |->
                              [tokenId |-> SecondParty.members[i].tokenId,
                               actorId |-> SecondParty.members[i].actorId]]]
        /\ partyCache = IF cached
                        THEN [partyTokenId |-> SecondParty.id,
                              members |-> SecondParty.members]
                        ELSE Null
        /\ formation = "line"
        /\ procs = [p \in Procs |->
                       IF p \in tasks THEN IdleProc ELSE [IdleProc EXCEPT !.pc = "off"]]
        /\ nextId = 1

NextTwo ==
    \E p \in Procs :
        \/ DisperseCall(p)
        \/ DisperseUnsetFlag(p)
        \/ DisperseSetFlag(p)
        \/ DisperseCreate(p)
        \/ DisperseCreateFail(p)
        \/ DisperseDelete(p)
        \/ DisperseAnimate(p)
        \/ DisperseUpdate(p)
        \/ DisperseClear(p)
        \/ DisperseFinally(p)
        \/ ScatterCall(p)
        \/ ScatterCreate(p)
        \/ ScatterDelete(p)
        \/ ScatterClear(p)
        \/ AddCall(p)
        \/ AddSave(p)
        \/ AddVision(p)
        \/ AddDelete(p)
        \/ RemoveCall(p)
        \/ RemoveCreate(p)
        \/ RemoveSaveFew(p)
        \/ RemoveSave(p)
        \/ RemoveVision(p)

SpecTwo == InitTwo /\ [][NextTwo]_vars

\* C25: as long as every call made is a call on the first party, the second
\* party token is on the scene with the roster it had, and the scene flag
\* holds the state of the second party
C25_OtherPartyUntouched ==
    (\A p \in Procs : procs[p].party # SecondParty.id)
        => /\ \E t \in tokens :
                 /\ t.id = SecondParty.id
                 /\ t.isPartyToken
                 /\ Pos(t.x, t.y) = Pos(SecondParty.x, SecondParty.y)
                 /\ t.members = SecondParty.members
           /\ activeParty # Null
           /\ activeParty.partyTokenId = SecondParty.id

\* C26: when a user deletes a party token, the token stays on the scene
\* until a disperse or a scatter deletes it, and a disperse of it is started
\* when the timer fires with the token still there; once that disperse has
\* deleted the party token, every snapshot of the roster has a token
\* restored from it on the scene
C26_DirectDeleteDisperses ==
    \A p \in Procs :
        "AutoDisperseInfo" \in procs[p].notes
            => /\ procs[p].pc = "timer"
                     => \/ OnScene(procs[p].party)
                        \/ \E q \in Procs \ {p} :
                              /\ procs[q].party = procs[p].party
                              /\ "deleted" \in Range(procs[q].log)
               /\ procs[p].pc # "timer"
                     => \/ procs[p].op = "disperse"
                        \/ ~OnScene(procs[p].party)
               /\ "deleted" \in Range(procs[p].log)
                     => \A i \in 1..Len(procs[p].members) :
                           \E t \in tokens : t.src = procs[p].members[i].tokenId

\* C27: in a disperse that placed by recorded offsets and pinned no member
\* to the party position, a member that was left without a spot is given a
\* position that no other member of the roster is given
C27_FallbackCellsUnclaimed ==
    \A p \in DisperseTasks :
        (procs[p].setFlag /\ procs[p].candidates = -1 /\ procs[p].unplaced = 0)
            => \A k \in 1..Len(procs[p].membersWithoutSpot) :
               \A j \in 1..Len(procs[p].positions) :
                  j # procs[p].membersWithoutSpot[k]
                      => procs[p].positions[j]
                             # procs[p].positions[procs[p].membersWithoutSpot[k]]

\* C28: a disperse that places by recorded offsets resolves a position for
\* every member of the roster; and it pins a member to the party position
\* only when no cell that steps reach from the party cell is both free of
\* other tokens and not given to a member, so that neither search has an
\* unclaimed cell to return
C28_AllResolvedPinnedLast ==
    \A p \in DisperseTasks :
        (procs[p].setFlag /\ procs[p].candidates = -1)
            => /\ Len(procs[p].positions) = Len(procs[p].members)
               /\ \A i \in 1..Len(procs[p].positions) : procs[p].positions[i] # Null
               /\ procs[p].unplaced > 0
                     => \A c \in ReachableFromParty[walls] :
                           \/ \E t \in Bystanders :
                                 /\ c[1] > t.x /\ c[1] < t.x + t.w * GridSize
                                 /\ c[2] > t.y /\ c[2] < t.y + t.h * GridSize
                           \/ \E i \in 1..Len(procs[p].positions) :
                                 /\ procs[p].positions[i].x = c[1] - GridSize \div 2
                                 /\ procs[p].positions[i].y = c[2] - GridSize \div 2

\* A disperse by recorded offsets has pinned a member without a spot to the
\* party position, beside a member it placed by its offset
C28_Witness ==
    \E p \in DisperseTasks :
        /\ procs[p].setFlag /\ procs[p].candidates = -1
        /\ procs[p].unplaced > 0
        /\ Len(procs[p].membersWithoutSpot) < Len(procs[p].members)
        /\ \E k \in 1..Len(procs[p].membersWithoutSpot) :
              procs[p].positions[procs[p].membersWithoutSpot[k]] = procs[p].partyPos

C30_FormationOnlyWithoutOffsets ==
    [][\A p \in Procs :
          (procs[p].pc = "setFlag" /\ procs'[p].setFlag
               /\ procs'[p].pc \in {"create", "delete", "finally"})
              => \E party \in {t \in tokens' : t.id = procs[p].party} :
                 \E noOffset \in {\A i \in 1..Len(procs[p].members) :
                                      procs[p].members[i].gridPos = Null} :
                 \E validRef \in {IF noOffset
                                  THEN formationCandidates(tokens', walls, party,
                                                           procs[p].members)
                                  ELSE <<>>} :
                 \E resolved \in {IF noOffset THEN <<>>
                                  ELSE resolveFinalPositions(tokens', walls, party,
                                           procs[p].members).finalPositions} :
                    /\ (procs'[p].candidates # -1) <=> noOffset
                    /\ \A f \in FORMATIONS :
                          \E r \in {formatPositions(tokens', walls, party,
                                                    procs[p].members, f)} :
                             /\ f = formation => procs'[p].positions = r.formattedPositions
                             /\ r.searched <=> noOffset
                             /\ r.formattedPositions
                                   = IF noOffset
                                     THEN Bind(apply(f, validRef, party.rotation),
                                               LAMBDA placed :
                                                   [i \in 1..Len(placed) |->
                                                       Pos(placed[i].x, placed[i].y)])
                                     ELSE resolved]_vars

\* A disperse placed a roster of one member with a recorded offset and one
\* without by the memory pass and its fallback, in a scene where two
\* formations applied to the candidates would give different positions
C30_Witness ==
    \E p \in DisperseTasks :
        /\ procs[p].setFlag /\ procs[p].candidates = -1
        /\ Len(procs[p].members) = 2
        /\ procs[p].members[1].gridPos # Null
        /\ procs[p].members[2].gridPos = Null
        /\ \E t \in tokens :
              /\ t.id = procs[p].party
              /\ \E f1, f2 \in FORMATIONS :
                    apply(f1, formationCandidates(tokens, walls, t, procs[p].members),
                          t.rotation)
                        # apply(f2, formationCandidates(tokens, walls, t,
                                                        procs[p].members),
                                t.rotation)

(***************************************************************************)
(* FormationPresets.apply on the candidates of a search                    *)
(***************************************************************************)
\* C31: apply with a built-in pattern returns the candidates in another
\* order, each of them exactly once, and its k-th entry is a candidate not
\* among the entries before it that is nearest to the first candidate moved
\* by the k-th offset of the pattern
C31_PermutationByNearest ==
    \A p \in {q \in Procs : procs[q].op = "apply"} :
        LET availablePositions == procs[p].arg.availablePositions
            result == procs[p].result
            count == Len(availablePositions)
            idealPositions == getPositions(procs[p].arg.formationId, count,
                                           procs[p].arg.direction)
            d2(q, k) ==
                (q.x - (availablePositions[1].x + idealPositions[k].dx))
                    * (q.x - (availablePositions[1].x + idealPositions[k].dx))
                + (q.y - (availablePositions[1].y + idealPositions[k].dy))
                    * (q.y - (availablePositions[1].y + idealPositions[k].dy))
        IN /\ Len(result) = count
           /\ \A i \in 1..count :
                 Cardinality({k \in 1..Len(result) : result[k] = availablePositions[i]}) = 1
           /\ \A k \in 1..Len(result) :
                 \A i \in 1..count :
                    availablePositions[i] \notin {result[j] : j \in 1..(k - 1)}
                        => d2(result[k], k) <= d2(availablePositions[i], k)

\* A pattern applied to candidates found among walls put them in another
\* order than the search's
C31_Witness ==
    \E p \in Procs :
        /\ procs[p].op = "apply"
        /\ walls # {}
        /\ Len(procs[p].result) >= 3
        /\ procs[p].arg.direction = 90
        /\ procs[p].result # procs[p].arg.availablePositions

(***************************************************************************)
(* Custom patterns: the panel saves the arrangement of the active party as *)
(* a pattern, the roster is edited and reordered, and a saved pattern is   *)
(* picked in the formation selector.  Tokens of one actor share its id.    *)
(***************************************************************************)
\* _onSaveFormation and FormationPresets.saveFormation: the members that
\* record an offset become the slots of a new pattern, which becomes the
\* selected formation; nothing is saved when no member records an offset or
\* the name prompt is dismissed
PatternSave(p) ==
    /\ procs[p].pc = "idle"
    /\ \E party \in {findPartyToken}, named \in BOOLEAN :
          LET gridPositions == IF party = Null THEN <<>>
                               ELSE SelectSeq(party.members,
                                              LAMBDA m : m.gridPos # Null)
              positions == [i \in 1..Len(gridPositions) |->
                               [dx |-> gridPositions[i].gridPos.x * GridSize,
                                dy |-> gridPositions[i].gridPos.y * GridSize,
                                order |-> i - 1,
                                tokenId |-> gridPositions[i].tokenId,
                                actorId |-> gridPositions[i].actorId]]
              saved == Len(gridPositions) > 0 /\ named
          IN /\ procs' = [procs EXCEPT
                    ![p].op = "saveFormation",
                    ![p].result = IF saved THEN positions ELSE Null,
                    ![p].outcome = IF Len(gridPositions) = 0 THEN "gridEmpty"
                                   ELSE IF named THEN "saved" ELSE "unchanged",
                    ![p].pc = "done"]
             /\ formation' = IF saved THEN p ELSE formation
    /\ UNCHANGED <<tokens, walls, actors, activeParty, partyCache, nextId>>

\* _saveNewOrder: the members are sorted into the order of the dragged list
Reorder(p) ==
    /\ procs[p].pc = "idle"
    /\ \E party \in {findPartyToken} :
          IF party = Null
          THEN procs' = [procs EXCEPT ![p].op = "saveNewOrder", ![p].pc = "done",
                                      ![p].outcome = "noParty"]
          ELSE \E newOrder \in {f \in [1..Len(party.members) -> 1..Len(party.members)] :
                                   \A i, j \in DOMAIN f : i # j => f[i] # f[j]} :
                  procs' = [procs EXCEPT
                      ![p].op = "saveNewOrder", ![p].party = party.id,
                      ![p].members = [k \in 1..Len(party.members) |->
                                         party.members[newOrder[k]]],
                      ![p].pc = "saveMembers"]
    /\ UNCHANGED <<tokens, walls, actors, activeParty, partyCache, formation, nextId>>

\* A party gathered from two or three tokens, each of one of two actors
InitPattern ==
    \E n \in 2..3 :
    \E a \in [1..n -> {21, 22}] :
        LET roster == [i \in 1..n |-> [GatheredRoster(n)[i] EXCEPT !.actorId = a[i]]]
        IN /\ tokens = {PartyToken(roster, 0, FALSE)}
           /\ walls = {}
           /\ actors = {0} \cup RosterActors(roster)
           /\ activeParty = [partyTokenId |-> 100,
                             members |-> [i \in 1..n |->
                                             [tokenId |-> roster[i].tokenId,
                                              actorId |-> roster[i].actorId]]]
           /\ partyCache = Null
           /\ formation = "line"
           /\ procs = [p \in Procs |->
                          IF p = "p4" THEN [IdleProc EXCEPT !.pc = "off"] ELSE IdleProc]
           /\ nextId = 1

NextPattern ==
    \E p \in Procs :
        \/ RemoveFromGrid(p)
        \/ Reorder(p)
        \/ PatternSave(p)
        \/ FormationChange(p) /\ procs'[p].arg \in customFormations
        \/ FormationApply(p)
        \/ SaveMembers(p)
        \/ SaveFormation(p)

SpecPattern == InitPattern /\ [][NextPattern]_vars

\* C32: when a saved pattern is applied to the roster, every member whose
\* token id is bound to a slot takes that slot, a member matched by its actor
\* id takes a slot no member before it was given, and no slot is given to two
\* members
C32_SlotsBoundOnce ==
    [][\A p \in Procs :
          (/\ procs[p].pc = "formationSetting"
           /\ procs'[p].pc = "saveMembers"
           /\ procs[p].arg \in customFormations)
              => \E positions \in {procs[procs[p].arg].result} :
                 \E members \in {findPartyToken.members} :
                 \E st \in {bindSlots(members, positions)} :
                    /\ procs'[p].members = st.members
                    /\ \A i \in 1..Len(members) : \A k \in 1..Len(positions) :
                          positions[k].tokenId = members[i].tokenId
                              => st.slotOf[i] = k
                    /\ \A i \in 1..Len(members) :
                          (/\ st.slotOf[i] # 0
                           /\ positions[st.slotOf[i]].tokenId # members[i].tokenId
                           /\ positions[st.slotOf[i]].actorId = members[i].actorId)
                              => \A j \in 1..(i - 1) : st.slotOf[j] # st.slotOf[i]
                    /\ \A i, j \in 1..Len(members) :
                          (i # j /\ st.slotOf[i] # 0) => st.slotOf[i] # st.slotOf[j]]_vars

(***************************************************************************)
(* Properties of emergencyScatter                                          *)
(***************************************************************************)
\* C33: emergencyScatter asks for twice as many candidates as the roster has
\* members; when the search returns at least one candidate per member, every
\* member is restored on a cell of its own among the candidates, which no
\* token of the scene overlaps and which single steps reach from the party
\* cell; then the party token is deleted and the activeParty state cleared
C33_ScatterPlacesAll ==
    [][\A p \in Procs :
          /\ (procs[p].pc = "idle" /\ procs'[p].op = "scatter" /\ procs'[p].pc # "done")
                => \E t \in {u \in tokens : u.id = procs'[p].party} :
                   \E found \in {findValidPositions(tokens, walls, PartyCenter(t).x,
                                     PartyCenter(t).y, 2 * Len(t.members), {})} :
                   \E reachable \in {StepClosure(walls, {<<PartyCenter(t).x,
                                                           PartyCenter(t).y>>})} :
                      Len(found) >= Len(t.members)
                          => /\ Len(procs'[p].positions) = Len(t.members)
                             /\ Len(procs'[p].tokensData) = Len(t.members)
                             /\ \A i \in 1..Len(t.members) :
                                   LET pos == procs'[p].positions[i]
                                       centre == <<pos.x + GridSize \div 2,
                                                   pos.y + GridSize \div 2>>
                                   IN /\ procs'[p].tokensData[i].member = t.members[i]
                                      /\ procs'[p].tokensData[i].position = pos
                                      /\ \E k \in 1..Len(found) :
                                            pos = snapToTopLeft(found[k].x, found[k].y)
                                      /\ centre \in reachable
                                      /\ \A u \in tokens :
                                            \/ u.x + u.w * GridSize <= pos.x
                                            \/ pos.x + GridSize <= u.x
                                            \/ u.y + u.h * GridSize <= pos.y
                                            \/ pos.y + GridSize <= u.y
                                      /\ \A j \in 1..Len(t.members) :
                                            j # i => procs'[p].positions[j] # pos
          /\ (/\ procs[p].pc = "scatterCreate" /\ procs'[p].pc = "scatterDelete"
              /\ Len(procs[p].positions) = Len(procs[p].members))
                => \A i \in 1..Len(procs[p].members) :
                      \E u \in tokens' :
                         /\ u.src = procs[p].members[i].tokenId
                         /\ Pos(u.x, u.y) = procs[p].positions[i]
          /\ (procs[p].pc = "scatterClear" /\ procs'[p].pc = "done")
                => /\ \A u \in tokens' : u.id # procs[p].party
                   /\ activeParty' = Null]_vars

(***************************************************************************)
(* Snapshots whose actor is gone                                           *)
(***************************************************************************)
\* C34: when a disperse of a roster some of whose actors are gone has
\* returned with success, no token stands for a snapshot whose actor is gone,
\* and every other snapshot stands on the scene as one token at the position
\* the run resolved for that snapshot
C34_SkipsOnlyTheMissing ==
    \A p \in DisperseTasks :
        (/\ procs[p].pc = "done" /\ procs[p].outcome = "success"
         /\ \E i \in 1..Len(procs[p].members) : procs[p].members[i].actorId \notin actors)
            => \A i \in 1..Len(procs[p].members) :
                  LET restoredFor == {t \in tokens : t.src = procs[p].members[i].tokenId}
                  IN IF procs[p].members[i].actorId \notin actors
                     THEN restoredFor = {}
                     ELSE /\ Cardinality(restoredFor) = 1
                          /\ \A t \in restoredFor :
                                Pos(t.x, t.y) = procs[p].positions[i]

(***************************************************************************)
(* The offsets a gather records                                            *)
(***************************************************************************)
\* C35: the roster a gather builds records an offset for every member.  A
\* member the draft names has the draft's offset.  Any other member has the
\* cell its token stands in, seen from the centre of the tokens and clamped
\* to -2..2, when neither the draft nor an earlier member took that cell,
\* and otherwise the first cell of the spiral that is free of the draft's
\* cells, the cells so taken and the spiral cells given before it; and the
\* offset of a member the draft does not name lies within -2..2
C35_OffsetsAfterGather ==
    \A p \in {q \in Procs : /\ procs[q].op \in {"gather", "panelGather"}
                            /\ procs[q].pc = "gatherAnimate"} :
        LET members == procs[p].members
            draft == procs[p].arg
            center == procs[p].center
            n == Len(members)
            D == center.n * GridSize
            Drafted(i) == \E k \in 1..Len(draft) : draft[k].tokenId = members[i].tokenId
            Nearest(v) == CHOOSE g \in (0 - 2 * SceneW)..(2 * SceneW) :
                              0 - D <= 2 * (v - g * D) /\ 2 * (v - g * D) < D
            Into(g) == IF g < -2 THEN -2 ELSE IF g > 2 THEN 2 ELSE g
            Projected(i) ==
                LET t == TokenById(members[i].tokenId)
                IN Pos(Into(Nearest(center.n * (t.x + (t.w * GridSize) \div 2) - center.x)),
                       Into(Nearest(center.n * (t.y + (t.h * GridSize) \div 2) - center.y)))
            draftCells == {draft[k].gridPos :
                              k \in {l \in 1..Len(draft) :
                                        \E i \in 1..n :
                                           members[i].tokenId = draft[l].tokenId}}
            Kept(i) == /\ ~Drafted(i)
                       /\ Projected(i) \notin draftCells
                       /\ \A j \in 1..(i - 1) : ~Drafted(j) => Projected(j) # Projected(i)
            taken(i) == draftCells
                            \cup {Projected(j) : j \in {k \in 1..n : Kept(k)}}
                            \cup {members[j].gridPos :
                                     j \in {k \in 1..(i - 1) : ~Drafted(k) /\ ~Kept(k)}}
            spiral == getPrioritySlots(n + 5)
        IN \A i \in 1..n :
              /\ members[i].gridPos # Null
              /\ Drafted(i) =>
                    \E k \in 1..Len(draft) :
                       /\ draft[k].tokenId = members[i].tokenId
                       /\ members[i].gridPos = draft[k].gridPos
              /\ Kept(i) => members[i].gridPos = Projected(i)
              /\ (~Drafted(i) /\ ~Kept(i)) =>
                    \E s \in 1..Len(spiral) :
                       /\ members[i].gridPos = spiral[s]
                       /\ spiral[s] \notin taken(i)
                       /\ \A r \in 1..(s - 1) : spiral[r] \in taken(i)
              /\ ~Drafted(i) =>
                    /\ members[i].gridPos.x \in -2..2
                    /\ members[i].gridPos.y \in -2..2

\* A gather whose draft puts its first token on (0,0): of two tokens that
\* stand in one cell, the first has the cell west of the centre and the
\* second a cell of the spiral other than (0,0)
C35_Witness ==
    \E p \in Procs :
        /\ procs[p].op \in {"gather", "panelGather"}
        /\ procs[p].pc = "gatherAnimate"
        /\ Len(procs[p].members) = 3
        /\ Len(procs[p].arg) = 1
        /\ procs[p].arg[1].tokenId = procs[p].members[1].tokenId
        /\ procs[p].members[1].gridPos = Pos(0, 0)
        /\ TokenById(procs[p].members[2].tokenId).x = 0
        /\ TokenById(procs[p].members[3].tokenId).x = 0
        /\ procs[p].members[2].gridPos = Pos(-1, 0)
        /\ procs[p].members[3].gridPos \notin {Pos(-1, 0), Pos(0, 0)}

(***************************************************************************)
(* The two flood fills and the walls                                       *)
(***************************************************************************)
\* C36: every cell findValidPositions or buildReachableSet returns lies
\* inside the scene and is the origin or is reached from it by steps from
\* cell to cell inside the scene, each of them unobstructed and, when
\* diagonal, with one of its two orthogonal steps unobstructed
C36_OnlyClearStepsInsideScene ==
    \A p \in Procs :
        /\ (procs[p].op = "findValidPositions" /\ procs[p].pc = "done")
              => \A i \in 1..Len(procs[p].result) :
                    /\ isWithinSceneBounds(procs[p].result[i].x, procs[p].result[i].y)
                    /\ <<procs[p].result[i].x, procs[p].result[i].y>>
                          \in StepClosure(walls, {<<procs[p].arg.centerX,
                                                    procs[p].arg.centerY>>})
        /\ (procs[p].op = "buildReachableSet" /\ procs[p].pc = "done")
              => /\ \A c \in procs[p].result : isWithinSceneBounds(c[1], c[2])
                 /\ procs[p].result
                       \subseteq StepClosure(walls, {<<procs[p].arg.centerX,
                                                       procs[p].arg.centerY>>})

\* buildReachableSet from a cell at the edge of the scene has returned more
\* than that cell and less than the scene, which walls divide
C36_Witness ==
    \E p \in Procs :
        /\ procs[p].op = "buildReachableSet" /\ procs[p].pc = "done"
        /\ walls # {}
        /\ procs[p].arg.centerY = GridSize \div 2
        /\ Cardinality(procs[p].result) > 1
        /\ Cardinality(procs[p].result) < SceneW * SceneH

(***************************************************************************)
(* The gathered tokens and the party token during a gather                 *)
(***************************************************************************)
\* C37: at every state of a gather that has not returned, the tokens it
\* gathers are all on the scene, or the party token it created is on the
\* scene and carries a snapshot of each of them, so that the gathered tokens
\* are deleted only after that party token was created
C37_CreatedBeforeDeleted ==
    \A p \in Procs :
        (procs[p].op \in {"gather", "panelGather"} /\ procs[p].pc # "done")
            => \/ \A i \in 1..Len(procs[p].tokensData) : OnScene(procs[p].tokensData[i])
               \/ /\ procs[p].pc \in {"gatherHide", "gatherSave"}
                  /\ \E t \in PartyTokens :
                        /\ t.id = procs[p].result
                        /\ Len(t.members) = Len(procs[p].tokensData)
                        /\ \A i \in 1..Len(t.members) :
                              t.members[i].tokenId = procs[p].tokensData[i]

\* A gather of three tokens has deleted them and has not yet saved the state
C37_Witness ==
    \E p \in Procs :
        /\ procs[p].op \in {"gather", "panelGather"}
        /\ procs[p].pc = "gatherSave"
        /\ Len(procs[p].tokensData) = 3
        /\ \A i \in 1..3 : ~OnScene(procs[p].tokensData[i])
        /\ OnScene(procs[p].result)

(***************************************************************************)
(* The roster readout                                                      *)
(***************************************************************************)
\* getPartyData: the cache when it is set, else the first party token's
\* roster, else null
getPartyData ==
    IF partyCache # Null THEN partyCache
    ELSE IF findPartyToken = Null THEN Null
    ELSE [partyTokenId |-> findPartyToken.id, members |-> findPartyToken.members]

\* No task but p is between its call and its return
Alone(p) == \A q \in Procs \ {p} : procs[q].pc \in {"idle", "done", "off"}

\* The calls of the panel, of addMember, of removeMember and of disperseParty
\* made one after another: a call is made when the call before has returned
\* (a disperse then finds no dispersal of another task under way)
NextSerial ==
    \E p \in Procs :
        \/ Alone(p) /\ DropInGrid(p)
        \/ Alone(p) /\ RemoveFromGrid(p)
        \/ Alone(p) /\ FormationChange(p)
        \/ Alone(p) /\ FormationApply(p)
        \/ Alone(p) /\ SaveMembers(p)
        \/ Alone(p) /\ SaveFormation(p)
        \/ Alone(p) /\ AddCall(p)
        \/ Alone(p) /\ AddSave(p)
        \/ Alone(p) /\ AddVision(p)
        \/ Alone(p) /\ AddDelete(p)
        \/ Alone(p) /\ RemoveCall(p)
        \/ Alone(p) /\ RemoveCreate(p)
        \/ Alone(p) /\ RemoveSaveFew(p)
        \/ Alone(p) /\ RemoveSave(p)
        \/ Alone(p) /\ RemoveVision(p)
        \/ Alone(p) /\ DisperseSetFlag(p)
        \/ Alone(p) /\ DisperseCreate(p)
        \/ Alone(p) /\ DisperseCreateFail(p)
        \/ Alone(p) /\ DisperseDelete(p)
        \/ Alone(p) /\ DisperseAnimate(p)
        \/ Alone(p) /\ DisperseUpdate(p)
        \/ Alone(p) /\ DisperseClear(p)
        \/ Alone(p) /\ DisperseFinally(p)

SpecSerial == InitRoster /\ [][NextSerial]_vars

\* C38: whenever no handler is between its call and its return,
\* getPartyData returns null if no party token is on the scene, and else
\* the id and the roster of the party token as its flag holds them
C38_ReadoutIsPersistedRoster ==
    (\A p \in Procs : procs[p].pc \in {"idle", "done", "off"})
        => IF PartyTokens = {}
           THEN getPartyData = Null
           ELSE /\ getPartyData # Null
                /\ \E t \in PartyTokens :
                      /\ getPartyData.partyTokenId = t.id
                      /\ getPartyData.members = t.members

(***************************************************************************)
(* Deleting a party token by hand.  The preDeleteToken hook cancels every  *)
(* deletion that disperseParty did not ask for and calls disperseParty     *)
(* from a timer.  The party tokens are those of InitRoster, a roster of    *)
(* one being what gatherParty makes of one token; removeMember shortens    *)
(* the roster.                                                             *)
(***************************************************************************)
\* The steps the runtime takes by itself: a timer fires, an awaited call
\* resolves
Resume(p) ==
    \/ HookFire(p)
    \/ DisperseUnsetFlag(p)
    \/ DisperseSetFlag(p)
    \/ DisperseCreate(p)
    \/ DisperseDelete(p)
    \/ DisperseAnimate(p)
    \/ DisperseUpdate(p)
    \/ DisperseClear(p)
    \/ DisperseFinally(p)
    \/ RemoveCreate(p)
    \/ RemoveSaveFew(p)
    \/ RemoveSave(p)
    \/ RemoveVision(p)

NextDelete ==
    \E p \in Procs :
        \/ UserDelete(p)
        \/ RemoveCall(p)
        \/ Resume(p)

\* Every timer that was set fires and every awaited call resolves
SpecDelete ==
    InitRoster /\ [][NextDelete]_vars /\ \A p \in Procs : WF_vars(Resume(p))

\* C39: after a user has asked for the deletion of a party token, the token
\* is off the scene at some later time, or a disperse of it has been rolled
\* back
C39_DeletionEventuallyRemoves ==
    \A p \in Procs :
        (procs[p].op = "hook" /\ procs[p].pc = "timer")
            ~> \/ ~OnScene(procs[p].party)
               \/ \E q \in Procs : /\ procs[q].party = procs[p].party
                                   /\ procs[q].outcome = "rollback"

=============================================================================
